---- MODULE Spec2Model ----
(***************************************************************************)
(* Budget suggestion engine of the wishlist application                    *)
(* (src/src/lib/budget.ts): price resolution, eligibility filter, the     *)
(* three greedy strategies, rounding of the totals and deduplication.     *)
(*                                                                         *)
(* Prices and budgets are JavaScript numbers, that is IEEE-754 binary64   *)
(* values.  A finite non-negative number is held exactly as a tuple of    *)
(* Limbs limbs of LimbBits bits, least significant first, with the units  *)
(* bit at position UnitsBit; every arithmetic operation of the code       *)
(* rounds its exact result to Precision significant bits, ties to even.   *)
(* The window covers the amounts between 2^-22 and 2^15.                   *)
(***************************************************************************)
EXTENDS Integers, Sequences, FiniteSets, TLC

\* ---------------------------------------------------------------- bounds
MaxItems == 3
MaxCompanions == 1
MaxBudget == 4
MaxCents == 2
MaxBudgetCents == 4
MaxFineItems == 2

\* Priority levels used for converted items, of the type
\* Priority = 1 | 2 | 3 | 4 | 5: with prices 1 and 2 they give both distinct
\* and equal priority / price ratios (1/1 = 2/2, 2/1 = 4/2).
Priorities == {1, 2, 4}
Currencies == {"USD", "EUR"}

\* ------------------------------------------------ binary64 arithmetic
LimbBits == 15
Limbs == 6
Precision == 53
Base == 2 ^ LimbBits
UnitsBit == LimbBits * (Limbs - 1)
Vec == [1..Limbs -> 0..(Base - 1)]
Zero == [i \in 1..Limbs |-> 0]
FromInt(n) == [Zero EXCEPT ![Limbs] = n]
Unit(p) == [Zero EXCEPT ![p \div LimbBits + 1] = 2 ^ (p % LimbBits)]

\* x < y, x <= y
Lt(x, y) == \E i \in 1..Limbs : x[i] < y[i] /\ \A j \in (i + 1)..Limbs : x[j] = y[j]
Le(x, y) == x = y \/ Lt(x, y)

\* exact x + y
CarryIn(x, y, i) ==
    IF \E j \in 1..(i - 1) : /\ x[j] + y[j] >= Base
                             /\ \A k \in (j + 1)..(i - 1) : x[k] + y[k] = Base - 1
    THEN 1 ELSE 0
AddExact(x, y) == [i \in 1..Limbs |-> (x[i] + y[i] + CarryIn(x, y, i)) % Base]

\* exact x - y, for y <= x
BorrowIn(x, y, i) ==
    IF \E j \in 1..(i - 1) : /\ x[j] < y[j]
                             /\ \A k \in (j + 1)..(i - 1) : x[k] <= y[k]
    THEN 1 ELSE 0
SubExact(x, y) == [i \in 1..Limbs |-> (x[i] - y[i] - BorrowIn(x, y, i) + Base) % Base]

\* exact x * m, for a small integer m
RECURSIVE MulCarry(_, _, _)
MulCarry(x, m, i) ==
    IF i = 1 THEN 0 ELSE (x[i - 1] * m + MulCarry(x, m, i - 1)) \div Base
MulSmall(x, m) == [i \in 1..Limbs |-> (x[i] * m + MulCarry(x, m, i)) % Base]

\* x / d truncated to the window, and the remainder, for a small integer d
RECURSIVE DivRem(_, _, _)
DivRem(x, d, i) ==
    IF i > Limbs THEN 0 ELSE (DivRem(x, d, i + 1) * Base + x[i]) % d
DivQuot(x, d) == [i \in 1..Limbs |-> (DivRem(x, d, i + 1) * Base + x[i]) \div d]

TopBit(x) ==
    LET i == CHOOSE k \in 1..Limbs : x[k] # 0 /\ \A j \in (k + 1)..Limbs : x[j] = 0
        b == CHOOSE c \in 0..(LimbBits - 1) : 2 ^ c <= x[i] /\ x[i] < 2 ^ (c + 1)
    IN  (i - 1) * LimbBits + b
Bit(x, p) == (x[p \div LimbBits + 1] \div (2 ^ (p % LimbBits))) % 2
BelowNonzero(x, p) ==
    \E i \in 1..(p \div LimbBits + 1) :
        IF i < p \div LimbBits + 1 THEN x[i] # 0
        ELSE x[i] % (2 ^ (p % LimbBits)) # 0
Truncate(x, p) ==
    [i \in 1..Limbs |->
        IF i < p \div LimbBits + 1 THEN 0
        ELSE IF i = p \div LimbBits + 1
             THEN (x[i] \div (2 ^ (p % LimbBits))) * (2 ^ (p % LimbBits))
             ELSE x[i]]

\* The binary64 value nearest to an exact result x (ties to even); sticky
\* tells that the exact result has further non-zero bits below the window.
RoundToDouble[x \in Vec, sticky \in BOOLEAN] ==
    IF x = Zero THEN Zero
    ELSE LET cut == TopBit(x) - (Precision - 1)
         IN  IF cut <= 0 THEN x
             ELSE IF /\ Bit(x, cut - 1) = 1
                     /\ (sticky \/ BelowNonzero(x, cut - 1) \/ Bit(x, cut) = 1)
                  THEN AddExact(Truncate(x, cut), Unit(cut))
                  ELSE Truncate(x, cut)

\* x - y (for y <= x), x * m and x / d as JavaScript computes them
FSub(x, y) == RoundToDouble[SubExact(x, y), FALSE]
FMulSmall(x, m) == RoundToDouble[MulSmall(x, m), FALSE]
FDivSmall(x, d) == RoundToDouble[DivQuot(x, d), DivRem(x, d, 1) # 0]

\* Math.round(x): the nearest integer, halves upwards
MathRound(x) == Truncate(AddExact(x, Unit(UnitsBit - 1)), UnitsBit)

\* Restoring division by c, one quotient bit per step: r is the remainder
\* scaled to the quotient bit at position j, q the quotient bits above it and
\* lead the position of its leading bit (or -1).  It ends when the quotient
\* is exact, or has Precision bits and a guard bit.
DivLoop[r \in Vec, c \in Vec, j \in Int, q \in Vec, lead \in Int] ==
    IF r = Zero THEN q
    ELSE IF lead >= 0 /\ j < lead - Precision THEN RoundToDouble[q, TRUE]
    ELSE IF Le(c, r)
         THEN DivLoop[MulSmall(SubExact(r, c), 2), c, j - 1,
                      [q EXCEPT ![j \div LimbBits + 1] = @ + 2 ^ (j % LimbBits)],
                      IF lead < 0 THEN j ELSE lead]
         ELSE DivLoop[MulSmall(r, 2), c, j - 1, q, lead]

\* the integer p < 8 shifted to bit position o
PlaceInt(p, o) ==
    [i \in 1..Limbs |->
        IF i = o \div LimbBits + 1 THEN (p * 2 ^ (o % LimbBits)) % Base
        ELSE IF i = o \div LimbBits + 2 THEN (p * 2 ^ (o % LimbBits)) \div Base
        ELSE 0]

\* p / c as JavaScript computes it, for an integer 0 < p < 8: the quotient
\* is below 2^(UnitsBit + 3 - TopBit(c)), which is where the division starts
FDivInt(p, c) ==
    DivLoop[PlaceInt(p, TopBit(c) - 2), c, 2 * UnitsBit + 2 - TopBit(c), Zero, -1]

\* ------------------------------------------------------- JavaScript values
Num(x) == [kind |-> "num", neg |-> FALSE, mag |-> x]
Neg(x) == [kind |-> "num", neg |-> TRUE, mag |-> x]
NaN == [kind |-> "NaN", neg |-> FALSE, mag |-> Zero]
Infinity == [kind |-> "Infinity", neg |-> FALSE, mag |-> Zero]
Null == [kind |-> "null", neg |-> FALSE, mag |-> Zero]

\* the number a decimal amount of whole units, or of hundredths, denotes
Dollars(n) == Num(FromInt(n))
Cents(c) == Num(FDivSmall(FromInt(c), 100))
Mills(m) == Num(FDivSmall(FromInt(m), 1000))

\* typeof x === 'number'
IsNumber(x) == x.kind \in {"num", "NaN", "Infinity"}

\* isNaN(x)
IsNaN(x) == x.kind = "NaN"

\* x > y on JavaScript numbers: false as soon as one side is NaN
JsGt(x, y) ==
    CASE x.kind = "NaN" \/ y.kind = "NaN" -> FALSE
      [] x.kind = "Infinity" -> y.kind # "Infinity"
      [] y.kind = "Infinity" -> FALSE
      [] x.neg /\ y.neg -> Lt(x.mag, y.mag)
      [] x.neg -> FALSE
      [] y.neg -> TRUE
      [] OTHER -> Lt(y.mag, x.mag)

\* ------------------------------------------------------------ the engine
\* Wrong variants of getEffectivePrice: the fallback without the currency
\* test, the fallback with the currency test inverted, and currentPrice
\* preferred over priceInBaseCurrency.
getEffectivePriceAnyCurrency(item, baseCurrency) ==
    IF /\ item.priceInBaseCurrency # Null
       /\ IsNumber(item.priceInBaseCurrency)
       /\ ~IsNaN(item.priceInBaseCurrency)
       /\ JsGt(item.priceInBaseCurrency, Num(Zero))
    THEN item.priceInBaseCurrency
    ELSE IF JsGt(item.currentPrice, Num(Zero))
         THEN item.currentPrice
         ELSE Null

getEffectivePriceOtherCurrency(item, baseCurrency) ==
    IF /\ item.priceInBaseCurrency # Null
       /\ IsNumber(item.priceInBaseCurrency)
       /\ ~IsNaN(item.priceInBaseCurrency)
       /\ JsGt(item.priceInBaseCurrency, Num(Zero))
    THEN item.priceInBaseCurrency
    ELSE IF item.currency # baseCurrency /\ JsGt(item.currentPrice, Num(Zero))
         THEN item.currentPrice
         ELSE Null

getEffectivePriceCurrentFirst(item, baseCurrency) ==
    IF item.currency = baseCurrency /\ JsGt(item.currentPrice, Num(Zero))
    THEN item.currentPrice
    ELSE IF /\ item.priceInBaseCurrency # Null
            /\ IsNumber(item.priceInBaseCurrency)
            /\ ~IsNaN(item.priceInBaseCurrency)
            /\ JsGt(item.priceInBaseCurrency, Num(Zero))
         THEN item.priceInBaseCurrency
         ELSE Null

\* the price of an item in base currency, or Null when it has none
getEffectivePrice(item, baseCurrency) ==
    IF /\ item.priceInBaseCurrency # Null
       /\ IsNumber(item.priceInBaseCurrency)
       /\ ~IsNaN(item.priceInBaseCurrency)
       /\ JsGt(item.priceInBaseCurrency, Num(Zero))
    THEN item.priceInBaseCurrency
    ELSE IF item.currency = baseCurrency /\ JsGt(item.currentPrice, Num(Zero))
         THEN item.currentPrice
         ELSE Null

\* .map(...): the item with priceInBaseCurrency set to its effective price,
\* or Null when it has none
WithEffectivePrice(item, baseCurrency) ==
    LET effectivePrice == getEffectivePrice(item, baseCurrency)
    IN  IF effectivePrice = Null THEN Null
        ELSE [item EXCEPT !.priceInBaseCurrency = effectivePrice]

\* Wrong variant of Keep: purchased items pass.
KeepPurchased(item, budget) ==
    /\ item # Null
    /\ ~JsGt(item.priceInBaseCurrency, budget)

\* Wrong variant of Keep: items priced above the budget pass.
KeepOverBudget(item, budget) ==
    /\ item # Null
    /\ ~item.isPurchased

\* .filter(...)
Keep(item, budget) ==
    /\ item # Null
    /\ ~item.isPurchased
    /\ ~JsGt(item.priceInBaseCurrency, budget)

getAvailableItems(items, budget, baseCurrency) ==
    LET mapped == [i \in DOMAIN items |-> WithEffectivePrice(items[i], baseCurrency)]
    IN  SelectSeq(mapped, LAMBDA item : Keep(item, budget))

\* the sign of the JavaScript difference x - y of two finite numbers
Sign(x, y) == IF Lt(y, x) THEN 1 ELSE IF Lt(x, y) THEN -1 ELSE 0

\* Wrong variant of Value: the priority is left out.
ValueOfPriceAlone(a) == FDivInt(1, a.priceInBaseCurrency.mag)

\* a.priority / a.priceInBaseCurrency
Value(a) == FDivInt(a.priority, a.priceInBaseCurrency.mag)

\* Wrong variant of Compare: high-priority sorts ascending.
CompareLowPriorityFirst(strategy, a, b) ==
    CASE strategy = "high-priority" -> a.priority - b.priority
      [] strategy = "most-items" ->
            Sign(a.priceInBaseCurrency.mag, b.priceInBaseCurrency.mag)
      [] strategy = "best-value" -> Sign(Value(b), Value(a))

\* The comparators handed to Array.prototype.sort: a negative result puts a
\* first, a positive result puts b first.
Compare(strategy, a, b) ==
    CASE strategy = "high-priority" -> b.priority - a.priority
      [] strategy = "most-items" ->
            Sign(a.priceInBaseCurrency.mag, b.priceInBaseCurrency.mag)
      [] strategy = "best-value" -> Sign(Value(b), Value(a))

\* Wrong variant of Insert: an item moves in front of the items it ties with.
RECURSIVE InsertBeforeTies(_, _, _)
InsertBeforeTies(strategy, x, t) ==
    IF t = <<>> THEN <<x>>
    ELSE IF Compare(strategy, t[Len(t)], x) >= 0
         THEN Append(InsertBeforeTies(strategy, x, SubSeq(t, 1, Len(t) - 1)), t[Len(t)])
         ELSE Append(t, x)

\* [...items].sort(cmp): Array.prototype.sort is stable
RECURSIVE Insert(_, _, _)
Insert(strategy, x, t) ==
    IF t = <<>> THEN <<x>>
    ELSE IF Compare(strategy, t[Len(t)], x) > 0
         THEN Append(Insert(strategy, x, SubSeq(t, 1, Len(t) - 1)), t[Len(t)])
         ELSE Append(t, x)

RECURSIVE SortPrefix(_, _, _)
SortPrefix(strategy, s, n) ==
    IF n = 0 THEN <<>>
    ELSE Insert(strategy, s[n], SortPrefix(strategy, s, n - 1))

Sorted(strategy, s) == SortPrefix(strategy, s, Len(s))

\* Wrong variant of Fits: an item that takes all that is left does not fit.
FitsStrictly(price, remaining) == Lt(price, remaining)

\* if (price <= remaining)
Fits(price, remaining) == Le(price, remaining)

\* let remaining = budget;
\* for (const item of sorted) { if (price <= remaining) { push; remaining -= price } }
\* RemainingAfter(sorted, budget, i) is remaining after the first i items.
RECURSIVE RemainingAfter(_, _, _)
RemainingAfter(sorted, budget, i) ==
    IF i = 0 THEN budget
    ELSE LET before == RemainingAfter(sorted, budget, i - 1)
             price == sorted[i].priceInBaseCurrency.mag
         IN  IF Fits(price, before) THEN FSub(before, price) ELSE before

Remainings(sorted, budget) ==
    [i \in 0..Len(sorted) |-> RemainingAfter(sorted, budget, i)]

\* Wrong variant of Selected: the fit test is made against the whole budget.
SelectedWithinBudget(sorted, rem) ==
    LET picked == SelectSeq([i \in DOMAIN sorted |-> i],
                            LAMBDA i : Le(sorted[i].priceInBaseCurrency.mag, rem[0]))
    IN  [k \in DOMAIN picked |-> sorted[picked[k]]]

\* Wrong variant of Selected: the loop ends at the first item that does not
\* fit instead of passing over it.
SelectedUntilMisfit(sorted, rem) ==
    LET fits(i) == Fits(sorted[i].priceInBaseCurrency.mag, rem[i - 1])
        picked == SelectSeq([i \in DOMAIN sorted |-> i],
                            LAMBDA i : \A j \in 1..i : fits(j))
    IN  [k \in DOMAIN picked |-> sorted[picked[k]]]

Selected(sorted, rem) ==
    LET picked == SelectSeq([i \in DOMAIN sorted |-> i],
                            LAMBDA i : Fits(sorted[i].priceInBaseCurrency.mag, rem[i - 1]))
    IN  [k \in DOMAIN picked |-> sorted[picked[k]]]

\* Wrong variant of Round2: the scaling by 100 is left out.
Round2ToUnits(x) == MathRound(x)

\* Math.round(x * 100) / 100
Round2(x) == FDivSmall(MathRound(FMulSmall(x, 100)), 100)

\* Wrong variant of SumPriority: the items are counted.
RECURSIVE CountItems(_, _)
CountItems(selected, n) ==
    IF n = 0 THEN 0 ELSE CountItems(selected, n - 1) + 1

\* selected.reduce((sum, item) => sum + item.priority, 0)
RECURSIVE SumPriority(_, _)
SumPriority(selected, n) ==
    IF n = 0 THEN 0 ELSE SumPriority(selected, n - 1) + selected[n].priority

Greedy(strategy, items, budget) ==
    LET sorted == Sorted(strategy, items)
        rem == Remainings(sorted, budget.mag)
        selected == Selected(sorted, rem)
        remaining == rem[Len(sorted)]
    IN  [strategy |-> strategy,
         items |-> selected,
         totalCost |-> Num(Round2(FSub(budget.mag, remaining))),
         priorityScore |-> SumPriority(selected, Len(selected)),
         remaining |-> Num(Round2(remaining))]

greedyByPriority(items, budget) == Greedy("high-priority", items, budget)
greedyByCheapest(items, budget) == Greedy("most-items", items, budget)
greedyByValue(items, budget) == Greedy("best-value", items, budget)

\* a.items.map((item) => item.id).sort()
SortedIds(s) ==
    SortSeq([i \in DOMAIN s.items |-> s.items[i].id], LAMBDA x, y : x < y)

\* Wrong variant of areSuggestionsEqual: the ids are compared unsorted.
areSuggestionsEqualInOrder(a, b) ==
    IF Len(a.items) # Len(b.items) THEN FALSE
    ELSE \A index \in DOMAIN a.items : a.items[index].id = b.items[index].id

areSuggestionsEqual(a, b) ==
    IF Len(a.items) # Len(b.items) THEN FALSE
    ELSE LET aIds == SortedIds(a)
             bIds == SortedIds(b)
         IN  \A index \in DOMAIN aIds : aIds[index] = bIds[index]

RECURSIVE DedupPrefix(_, _)
DedupPrefix(suggestions, n) ==
    IF n = 0 THEN <<>>
    ELSE LET unique == DedupPrefix(suggestions, n - 1)
             isDuplicate == \E k \in DOMAIN unique :
                                areSuggestionsEqual(unique[k], suggestions[n])
         IN  IF isDuplicate THEN unique ELSE Append(unique, suggestions[n])

deduplicateSuggestions(suggestions) == DedupPrefix(suggestions, Len(suggestions))

\* Wrong variant of Strategies: most-items comes first.
StrategiesCheapestFirst(available, budget) ==
    << greedyByCheapest(available, budget),
       greedyByPriority(available, budget),
       greedyByValue(available, budget) >>

\* the three strategies, in the order of the array literal
Strategies(available, budget) ==
    << greedyByPriority(available, budget),
       greedyByCheapest(available, budget),
       greedyByValue(available, budget) >>

NonEmpty(suggestions) == SelectSeq(suggestions, LAMBDA s : Len(s.items) > 0)

suggestPurchases(items, budget, baseCurrency) ==
    LET available == getAvailableItems(items, budget, baseCurrency)
    IN  IF Len(available) = 0 THEN <<>>
        ELSE deduplicateSuggestions(NonEmpty(Strategies(available, budget)))

\* ------------------------------------------------------------------ state
VARIABLES
    items,          \* the wishlist handed to suggestPurchases
    budget,         \* the budget handed to suggestPurchases
    baseCurrency,   \* the base currency handed to suggestPurchases
    pc,             \* position inside suggestPurchases
    available,      \* const available
    suggestions,    \* const suggestions
    result,         \* the returned list
    \* POST /api/budget
    body,               \* what request.json() yields
    routePc,            \* position inside the handler
    reads,              \* the store functions the handler has called
    fetched,            \* what the two reads of Promise.all have settled to
    response,           \* the response of the handler
    storedItems,        \* the wishlist in the store, as getAllItems returns it
    storedBaseCurrency, \* the base currency in the store, as getSettings returns it
    \* the spreadsheet and the module state of the store
    wishlistSheet,      \* the rows of the Wishlist sheet below the header row
    sheetTitles,        \* the titles of the sheets of the spreadsheet
    wishlistHeader,     \* the number of cells of Wishlist!A1:O1 that are filled
    settingsSheet,      \* the rows of the Settings sheet
    initialized,        \* let initialized
    callers,            \* the calls of store functions in progress
    \* POST and GET /api/price-check, checkAllPrices
    cronSecret,         \* process.env.CRON_SECRET
    authHeader,         \* request.headers.get('authorization')
    method,             \* the method of the request
    checkPc,            \* position inside the handler and checkAllPrices
    checkResponse,      \* the response of the handler
    checkItems,         \* const items
    checkIndex,         \* let i
    results,            \* const results
    tally,              \* let priceDrops, priceIncreases, unchanged, failed
    scrapeCalls,        \* the calls scrapeProduct has received
    \* the wishlist page
    pageItems,          \* const [items, setItems]: isPurchased of each item shown
    serverItems,        \* isPurchased of each item in the store behind /api/items
    inflight,           \* the PUT requests of handleTogglePurchased not yet settled
    issued,             \* the number of PUT requests sent
    errorsLogged        \* the number of console.error calls of the catch block

engineVars == <<items, budget, baseCurrency, pc, available, suggestions, result>>
budgetRouteVars ==
    <<body, routePc, reads, fetched, response, storedItems, storedBaseCurrency>>
sheetVars ==
    <<wishlistSheet, sheetTitles, wishlistHeader, settingsSheet, initialized, callers>>
priceCheckVars ==
    <<cronSecret, authHeader, method, checkPc, checkResponse, checkItems, checkIndex,
      results, tally, scrapeCalls>>
pageVars == <<pageItems, serverItems, inflight, issued, errorsLogged>>
vars == <<engineVars, budgetRouteVars, sheetVars, priceCheckVars, pageVars>>

\* Whole amounts: every difference of these and every quotient
\* priority / price is exact in binary64.
WholePrices == {Dollars(1), Dollars(2)}
WholeBudgets == {Dollars(b) : b \in 1..MaxBudget}

\* Budgets for the wishlists with a raw item: below and at the higher price
RawBudgets == {Dollars(1), Dollars(2)}

\* Amounts of a few hundredths, none of which is a binary fraction
CentPrices == {Cents(c) : c \in 1..MaxCents}
CentBudgets == {Cents(c) : c \in 1..MaxBudgetCents}

\* Amounts in thousandths: half-cent prices (0.005, 0.015, 0.035) and budgets
\* of whole and of half cents (0.01, 0.015, 0.04, 0.30)
FinePrices == {Mills(5), Mills(15), Mills(35)}
FineBudgets == {Mills(10), Mills(15), Mills(40), Mills(300)}

Item(id, f) ==
    [id |-> id, priority |-> f.priority, isPurchased |-> f.isPurchased,
     currentPrice |-> f.currentPrice, currency |-> f.currency,
     priceInBaseCurrency |-> f.priceInBaseCurrency]

\* Unpurchased items whose converted price is present
ConvertedFields(priorities, prices) ==
    [priority : priorities, isPurchased : {FALSE},
     currentPrice : {Dollars(1)}, currency : {"USD"},
     priceInBaseCurrency : prices]

\* Items in every combination of the fields price resolution reads
RawFields ==
    [priority : {3}, isPurchased : BOOLEAN,
     currentPrice : {Num(Zero)} \cup WholePrices, currency : Currencies,
     priceInBaseCurrency : {Null, NaN, Infinity, Neg(FromInt(1)), Num(Zero)}
                               \cup WholePrices]

\* Items accompanying a raw item
CompanionFields ==
    [priority : {3}, isPurchased : BOOLEAN,
     currentPrice : {Dollars(1)}, currency : {"USD"},
     priceInBaseCurrency : {Dollars(1)}]

FieldLists(Fields, maxLen) == UNION { [1..n -> Fields] : n \in 0..maxLen }

InsertAt(fs, k, f) ==
    [i \in 1..(Len(fs) + 1) |-> IF i < k THEN fs[i] ELSE IF i = k THEN f ELSE fs[i - 1]]

\* the id of an item is its position in the wishlist
Wishlist(fs) == [i \in DOMAIN fs |-> Item(i, fs[i])]

\* wishlists of converted items
ConvertedLists ==
    { Wishlist(fs) : fs \in FieldLists(ConvertedFields(Priorities, WholePrices), MaxItems) }

\* wishlists with one raw item at any position among its companions
RawLists ==
    { Wishlist(InsertAt(p[1], p[2], p[3])) :
        p \in { q \in FieldLists(CompanionFields, MaxCompanions)
                        \X (1..(MaxCompanions + 1)) \X RawFields :
                    q[2] <= Len(q[1]) + 1 } }

\* wishlists of items priced in hundredths
CentLists ==
    { Wishlist(fs) : fs \in FieldLists(ConvertedFields({3}, CentPrices), MaxItems) }

\* wishlists of items priced in thousandths
FineLists ==
    { Wishlist(fs) : fs \in FieldLists(ConvertedFields({3}, FinePrices), MaxFineItems) }

\* JSON values of other types than number and null
Undefined == [kind |-> "undefined", neg |-> FALSE, mag |-> Zero]
String == [kind |-> "string", neg |-> FALSE, mag |-> Zero]
Boolean == [kind |-> "boolean", neg |-> FALSE, mag |-> Zero]

\* no response yet; a read that has not settled; a read that threw
NoResponse == [status |-> 0]
Pending == [state |-> "pending"]
Rejected == [state |-> "rejected"]
Fulfilled(v) == [state |-> "fulfilled", value |-> v]

\* an optional string: an environment variable, a request header
Absent == [present |-> FALSE, value |-> ""]
Present(s) == [present |-> TRUE, value |-> s]

\* the counters of checkAllPrices before its loop
NoTally == [priceDrops |-> 0, priceIncreases |-> 0, unchanged |-> 0, failed |-> 0]

WISHLIST_SHEET == "Wishlist"
SETTINGS_SHEET == "Settings"
WISHLIST_HEADERS == 15
SETTINGS_HEADERS == <<"Key", "Value">>

\* ['baseCurrency', 'USD']
DefaultSettings == <<"baseCurrency", "USD">>

\* the spreadsheet after initializeSheets, with no call in progress
SheetsSetUp ==
    /\ sheetTitles = {WISHLIST_SHEET, SETTINGS_SHEET}
    /\ wishlistHeader = WISHLIST_HEADERS
    /\ settingsSheet = <<SETTINGS_HEADERS, DefaultSettings>>
    /\ initialized = TRUE
    /\ callers = <<>>

\* The parts of the program that are not in use: suggestPurchases is not
\* being called, no request is being handled, the store holds no row and has
\* no call in progress, the wishlist page is not open.
Idle(parts) ==
    /\ "engine" \in parts =>
          /\ items = <<>>
          /\ budget = Undefined
          /\ baseCurrency = "USD"
          /\ pc = "idle"
          /\ available = <<>>
          /\ suggestions = <<>>
          /\ result = <<>>
    /\ "budget route" \in parts =>
          /\ body = [kind |-> "none"]
          /\ routePc = "idle"
          /\ reads = {}
          /\ fetched = [items |-> Pending, settings |-> Pending]
          /\ response = NoResponse
          /\ storedItems = <<>>
          /\ storedBaseCurrency = "USD"
    /\ "store" \in parts =>
          /\ wishlistSheet = <<>>
          /\ SheetsSetUp
    /\ "price check" \in parts =>
          /\ cronSecret = Absent
          /\ authHeader = Absent
          /\ method = "POST"
          /\ checkPc = "idle"
          /\ checkResponse = NoResponse
          /\ checkItems = <<>>
          /\ checkIndex = 0
          /\ results = <<>>
          /\ tally = NoTally
          /\ scrapeCalls = <<>>
    /\ "page" \in parts =>
          /\ pageItems = <<>>
          /\ serverItems = <<>>
          /\ inflight = {}
          /\ issued = 0
          /\ errorsLogged = 0

InitWith(lists, budgets) ==
    /\ items \in lists
    /\ budget \in budgets
    /\ baseCurrency \in Currencies
    /\ pc = "start"
    /\ available = <<>>
    /\ suggestions = <<>>
    /\ result = <<>>
    /\ Idle({"budget route", "store", "price check", "page"})

\* Converted items are listed in the currency of the call; the raw lists
\* cover items converted from another currency.
Init ==
    \/ InitWith(ConvertedLists, WholeBudgets) /\ baseCurrency = "USD"
    \/ InitWith(RawLists, RawBudgets)

InitCents == InitWith(CentLists, CentBudgets)

InitFine == InitWith(FineLists, FineBudgets)

\* Wrong variant of GetAvailable: the effective price is written into the
\* input item instead of a copy.
GetAvailableInPlace ==
    /\ pc = "start"
    /\ available' = getAvailableItems(items, budget, baseCurrency)
    /\ items' = [i \in DOMAIN items |->
                    IF getEffectivePrice(items[i], baseCurrency) = Null THEN items[i]
                    ELSE WithEffectivePrice(items[i], baseCurrency)]
    /\ pc' = "filtered"
    /\ UNCHANGED <<budget, baseCurrency, suggestions, result>>
    /\ UNCHANGED <<budgetRouteVars, sheetVars, priceCheckVars, pageVars>>

\* const available = getAvailableItems(items, budget, baseCurrency)
GetAvailable ==
    /\ pc = "start"
    /\ available' = getAvailableItems(items, budget, baseCurrency)
    /\ pc' = "filtered"
    /\ UNCHANGED <<items, budget, baseCurrency, suggestions, result>>
    /\ UNCHANGED <<budgetRouteVars, sheetVars, priceCheckVars, pageVars>>

\* if (available.length === 0) return []
ReturnEmpty ==
    /\ pc = "filtered"
    /\ Len(available) = 0
    /\ result' = <<>>
    /\ pc' = "done"
    /\ UNCHANGED <<items, budget, baseCurrency, available, suggestions>>
    /\ UNCHANGED <<budgetRouteVars, sheetVars, priceCheckVars, pageVars>>

\* Wrong variant of Generate: the strategies see the eligible items in an
\* arbitrary order, as with a sort that is not stable.
GenerateInAnyOrder ==
    /\ pc = "filtered"
    /\ Len(available) # 0
    /\ \E order \in Permutations(DOMAIN available) :
          suggestions' = Strategies([k \in DOMAIN available |-> available[order[k]]], budget)
    /\ pc' = "generated"
    /\ UNCHANGED <<items, budget, baseCurrency, available, result>>
    /\ UNCHANGED <<budgetRouteVars, sheetVars, priceCheckVars, pageVars>>

\* const suggestions = [greedyByPriority(...), greedyByCheapest(...), greedyByValue(...)]
Generate ==
    /\ pc = "filtered"
    /\ Len(available) # 0
    /\ suggestions' = Strategies(available, budget)
    /\ pc' = "generated"
    /\ UNCHANGED <<items, budget, baseCurrency, available, result>>
    /\ UNCHANGED <<budgetRouteVars, sheetVars, priceCheckVars, pageVars>>

\* return deduplicateSuggestions(suggestions.filter((s) => s.items.length > 0))
ReturnSuggestions ==
    /\ pc = "generated"
    /\ result' = deduplicateSuggestions(NonEmpty(suggestions))
    /\ pc' = "done"
    /\ UNCHANGED <<items, budget, baseCurrency, available, suggestions>>
    /\ UNCHANGED <<budgetRouteVars, sheetVars, priceCheckVars, pageVars>>

Next == GetAvailable \/ ReturnEmpty \/ Generate \/ ReturnSuggestions

Spec == Init /\ [][Next]_vars

SpecCents == InitCents /\ [][Next]_vars

SpecFine == InitFine /\ [][Next]_vars

\* ======================================================================
\* POST /api/budget (src/app/api/budget/route.ts)
\* ======================================================================

MaxStored == 2

\* Request bodies: one that request.json() cannot parse, the JSON value null,
\* and objects whose budget is absent, null, of another type than number,
\* zero, negative or positive, with and without a currency.
JsonBudgets ==
    {Undefined, Null, String, Boolean, Num(Zero), Neg(FromInt(1)), Dollars(1), Dollars(2)}
Bodies ==
    {[kind |-> "unparseable"], [kind |-> "null"]}
        \cup {[kind |-> "object", budget |-> b, currency |-> c] :
                    b \in JsonBudgets, c \in {Undefined, String}}

\* wishlists the store may hold
StoredLists ==
    { Wishlist(fs) : fs \in FieldLists(ConvertedFields({1, 2}, WholePrices), MaxStored) }

InitBudgetRoute ==
    /\ Idle({"engine", "store", "price check", "page"})
    /\ body \in Bodies
    /\ routePc = "request"
    /\ reads = {}
    /\ fetched = [items |-> Pending, settings |-> Pending]
    /\ response = NoResponse
    /\ storedItems \in StoredLists
    /\ storedBaseCurrency \in Currencies

\* x <= 0 on a JavaScript number
JsLeZero(x) ==
    CASE x.kind = "NaN" -> FALSE
      [] x.kind = "Infinity" -> FALSE
      [] OTHER -> x.neg \/ x.mag = Zero

\* body.budget === undefined || body.budget === null
BudgetAbsent(b) == b = Undefined \/ b = Null

\* Wrong variant of BudgetUnusable: zero passes.
BudgetNegative(b) == ~IsNumber(b) \/ (b.kind = "num" /\ b.neg /\ b.mag # Zero)

\* typeof body.budget !== 'number' || body.budget <= 0
BudgetUnusable(b) == ~IsNumber(b) \/ JsLeZero(b)

\* await request.json() throws, or body.budget throws on the value null:
\* the catch block answers 500
BodyUnreadable ==
    /\ routePc = "request"
    /\ body.kind \in {"unparseable", "null"}
    /\ response' = [status |-> 500, content |-> "Failed to generate budget suggestions"]
    /\ routePc' = "responded"
    /\ UNCHANGED <<body, reads, fetched, storedItems, storedBaseCurrency, engineVars>>
    /\ UNCHANGED <<sheetVars, priceCheckVars, pageVars>>

\* if (body.budget === undefined || body.budget === null) return 400
RejectAbsent ==
    /\ routePc = "request"
    /\ body.kind = "object"
    /\ BudgetAbsent(body.budget)
    /\ response' = [status |-> 400, content |-> "Budget amount is required"]
    /\ routePc' = "responded"
    /\ UNCHANGED <<body, reads, fetched, storedItems, storedBaseCurrency, engineVars>>
    /\ UNCHANGED <<sheetVars, priceCheckVars, pageVars>>

\* if (typeof body.budget !== 'number' || body.budget <= 0) return 400
RejectUnusable ==
    /\ routePc = "request"
    /\ body.kind = "object"
    /\ ~BudgetAbsent(body.budget)
    /\ BudgetUnusable(body.budget)
    /\ response' = [status |-> 400, content |-> "Budget must be a positive number"]
    /\ routePc' = "responded"
    /\ UNCHANGED <<body, reads, fetched, storedItems, storedBaseCurrency, engineVars>>
    /\ UNCHANGED <<sheetVars, priceCheckVars, pageVars>>

\* Promise.all([getAllItems(), getSettings()]): both reads are started
StartReads ==
    /\ routePc = "request"
    /\ body.kind = "object"
    /\ ~BudgetAbsent(body.budget)
    /\ ~BudgetUnusable(body.budget)
    /\ reads' = {"getAllItems", "getSettings"}
    /\ routePc' = "reading"
    /\ UNCHANGED <<body, fetched, response, storedItems, storedBaseCurrency, engineVars>>
    /\ UNCHANGED <<sheetVars, priceCheckVars, pageVars>>

\* getAllItems() settles: the items of the store, or an error of the store
GetAllItemsSettles ==
    /\ routePc = "reading"
    /\ fetched.items = Pending
    /\ \E outcome \in {Fulfilled(storedItems), Rejected} :
          fetched' = [fetched EXCEPT !.items = outcome]
    /\ UNCHANGED <<body, routePc, reads, response, storedItems, storedBaseCurrency,
                   engineVars>>
    /\ UNCHANGED <<sheetVars, priceCheckVars, pageVars>>

\* getSettings() settles: the settings of the store, or an error of the store
GetSettingsSettles ==
    /\ routePc = "reading"
    /\ fetched.settings = Pending
    /\ \E outcome \in {Fulfilled(storedBaseCurrency), Rejected} :
          fetched' = [fetched EXCEPT !.settings = outcome]
    /\ UNCHANGED <<body, routePc, reads, response, storedItems, storedBaseCurrency,
                   engineVars>>
    /\ UNCHANGED <<sheetVars, priceCheckVars, pageVars>>

\* Promise.all rejects as soon as one read has thrown: the catch block
\* answers 500
ReadsRejected ==
    /\ routePc = "reading"
    /\ Rejected \in {fetched.items, fetched.settings}
    /\ response' = [status |-> 500, content |-> "Failed to generate budget suggestions"]
    /\ routePc' = "responded"
    /\ UNCHANGED <<body, reads, fetched, storedItems, storedBaseCurrency, engineVars>>
    /\ UNCHANGED <<sheetVars, priceCheckVars, pageVars>>

\* suggestPurchases(items, body.budget, settings.baseCurrency) is called
CallSuggestPurchases ==
    /\ routePc = "reading"
    /\ fetched.items.state = "fulfilled"
    /\ fetched.settings.state = "fulfilled"
    /\ items' = fetched.items.value
    /\ budget' = body.budget
    /\ baseCurrency' = fetched.settings.value
    /\ pc' = "start"
    /\ routePc' = "called"
    /\ UNCHANGED <<available, suggestions, result>>
    /\ UNCHANGED <<body, reads, fetched, response, storedItems, storedBaseCurrency>>
    /\ UNCHANGED <<sheetVars, priceCheckVars, pageVars>>

\* return Response.json({ suggestions, baseCurrency: settings.baseCurrency })
ReturnResponse ==
    /\ routePc = "called"
    /\ pc = "done"
    /\ response' = [status |-> 200, content |-> [suggestions |-> result, baseCurrency |-> baseCurrency]]
    /\ routePc' = "responded"
    /\ UNCHANGED <<body, reads, fetched, storedItems, storedBaseCurrency, engineVars>>
    /\ UNCHANGED <<sheetVars, priceCheckVars, pageVars>>

BudgetRouteNext ==
    \/ BodyUnreadable
    \/ RejectAbsent
    \/ RejectUnusable
    \/ StartReads
    \/ GetAllItemsSettles
    \/ GetSettingsSettles
    \/ ReadsRejected
    \/ CallSuggestPurchases
    \/ GetAvailable
    \/ ReturnEmpty
    \/ Generate
    \/ ReturnSuggestions
    \/ ReturnResponse

SpecBudgetRoute == InitBudgetRoute /\ [][BudgetRouteNext]_vars

\* ======================================================================
\* /api/price-check (src/app/api/price-check/route.ts) and checkAllPrices
\* (src/lib/priceChecker.ts)
\* ======================================================================

MaxRows == 2

\* null in a cell or a field that holds a price
NoPrice == -1

\* a row of the Wishlist sheet: the columns the price check and the row
\* operations read or write; formulaRow is the row the formula of column N
\* refers to (0: no formula)
Row(id, url, currentPrice, isPurchased, previousPrice) ==
    [id |-> id, url |-> url, currentPrice |-> currentPrice,
     isPurchased |-> isPurchased, lastChecked |-> "", previousPrice |-> previousPrice,
     formulaRow |-> 0]

\* Rows by what the price check makes of them: to be checked, with and
\* without an earlier price and with an empty price cell; purchased; without
\* URL
RowKinds ==
    { [url |-> "u", currentPrice |-> 200, isPurchased |-> FALSE, previousPrice |-> NoPrice],
      [url |-> "u", currentPrice |-> 100, isPurchased |-> FALSE, previousPrice |-> 200],
      [url |-> "u", currentPrice |-> NoPrice, isPurchased |-> FALSE, previousPrice |-> NoPrice],
      [url |-> "u", currentPrice |-> 100, isPurchased |-> TRUE, previousPrice |-> NoPrice],
      [url |-> "", currentPrice |-> 100, isPurchased |-> FALSE, previousPrice |-> NoPrice] }

RowIds == <<"a", "b", "c", "d">>

\* the sheet with one row of each of the kinds ks, with the formula of
\* column N as addItem writes it
SheetOf(ks) ==
    [k \in DOMAIN ks |->
        [Row(RowIds[k], ks[k].url, ks[k].currentPrice, ks[k].isPurchased,
             ks[k].previousPrice) EXCEPT !.formulaRow = k + 1]]

CheckedSheets == { SheetOf(ks) : ks \in UNION { [1..n -> RowKinds] : n \in 0..MaxRows } }

InitPriceCheck ==
    /\ Idle({"engine", "budget route", "page"})
    /\ wishlistSheet \in CheckedSheets
    /\ SheetsSetUp
    /\ cronSecret \in {Absent, Present(""), Present("s3cret")}
    /\ authHeader \in {Absent, Present("Bearer s3cret"), Present("Bearer other"),
                        Present("s3cret")}
    /\ method \in {"POST", "GET"}
    /\ checkPc = "request"
    /\ checkResponse = NoResponse
    /\ checkItems = <<>>
    /\ checkIndex = 0
    /\ results = <<>>
    /\ tally = NoTally
    /\ scrapeCalls = <<>>

\* rowToItem, for the columns above: url is row[2] || null, currentPrice is
\* parseFloat(row[3]) || 0, previousPrice is null for an empty cell
rowToItem(row) ==
    [id |-> row.id,
     url |-> IF row.url = "" THEN Absent ELSE Present(row.url),
     currentPrice |-> IF row.currentPrice = NoPrice THEN 0 ELSE row.currentPrice,
     isPurchased |-> row.isPurchased,
     lastChecked |-> row.lastChecked,
     previousPrice |-> row.previousPrice]

\* Wrong variant of ForPriceCheck: every item of the sheet is checked.
AllForPriceCheck(rows) == [k \in DOMAIN rows |-> rowToItem(rows[k])]

\* getItemsForPriceCheck: allItems.filter((item) => item.url !== null && !item.isPurchased)
ForPriceCheck(rows) ==
    SelectSeq([k \in DOMAIN rows |-> rowToItem(rows[k])],
              LAMBDA item : item.url # Absent /\ ~item.isPurchased)

\* what scrapeProduct may answer: a price, no price, a failure, an exception
ScrapeOutcomes ==
    {[kind |-> "price", currentPrice |-> p, error |-> ""] : p \in {0, 100, 200, 201}}
        \cup {[kind |-> "noPrice", currentPrice |-> NoPrice, error |-> ""],
              [kind |-> "failure", currentPrice |-> NoPrice, error |-> "HTTP 403"],
              [kind |-> "thrown", currentPrice |-> NoPrice, error |-> "timeout"]}

\* isPriceChangeSignificant: |newPrice - oldPrice| / oldPrice >= 0.01, for
\* whole prices whose quotient is not near the threshold
isPriceChangeSignificant(oldPrice, newPrice) ==
    IF oldPrice = 0 THEN newPrice # 0
    ELSE LET difference == newPrice - oldPrice
         IN  (IF difference < 0 THEN -difference ELSE difference) * 100 >= oldPrice

\* Math.round(percentChange * 100) / 100, in hundredths of a percent
PercentChange(oldPrice, newPrice) ==
    IF oldPrice > 0
    THEN (2 * (newPrice - oldPrice) * 10000 + oldPrice) \div (2 * oldPrice)
    ELSE 0

\* a result of checkItemPrice that reports a failure
FailedResult(item, error) ==
    [itemId |-> item.id, previousPrice |-> item.currentPrice, currentPrice |-> NoPrice,
     priceChanged |-> FALSE, percentChange |-> 0, error |-> error]

\* checkItemPrice(item), when scrapeProduct answers outcome
checkItemPrice(item, outcome) ==
    IF ~item.url.present \/ item.url.value = "" THEN FailedResult(item, "No URL to check")
    ELSE IF outcome.kind = "thrown" THEN FailedResult(item, outcome.error)
    ELSE IF outcome.kind \in {"failure", "noPrice"}
         THEN FailedResult(item, IF outcome.error # "" THEN outcome.error
                                 ELSE "Failed to scrape price")
    ELSE [itemId |-> item.id, previousPrice |-> item.currentPrice,
          currentPrice |-> outcome.currentPrice,
          priceChanged |-> isPriceChangeSignificant(item.currentPrice,
                                                    outcome.currentPrice),
          percentChange |-> PercentChange(item.currentPrice, outcome.currentPrice),
          error |-> ""]

\* rows.findIndex((row) => row[0] === id) over column A, whose first cell is
\* the header: the index of data row k is k; 0 stands for -1
FindIndex(rows, id) ==
    IF \E k \in DOMAIN rows : rows[k].id = id
    THEN CHOOSE k \in DOMAIN rows :
            rows[k].id = id /\ \A j \in 1..(k - 1) : rows[j].id # id
    ELSE 0

\* updateItemAfterPriceCheck: columns D, M and O of the row found
AfterPriceCheck(rows, id, newPrice, previousPrice, lastChecked) ==
    [rows EXCEPT ![FindIndex(rows, id)] =
        [@ EXCEPT !.currentPrice = newPrice, !.lastChecked = lastChecked,
                  !.previousPrice = previousPrice]]

\* if (!cronSecret) return 500
RejectUnconfigured ==
    /\ checkPc = "request"
    /\ ~cronSecret.present \/ cronSecret.value = ""
    /\ checkResponse' = [status |-> 500, content |-> "Server configuration error"]
    /\ checkPc' = "responded"
    /\ UNCHANGED <<cronSecret, authHeader, method, checkItems, checkIndex, results,
                   tally, scrapeCalls, sheetVars>>
    /\ UNCHANGED <<engineVars, budgetRouteVars, pageVars>>

\* Wrong variant of Authorized: any header that ends with the secret passes.
AuthorizedBySecret ==
    authHeader.present /\ authHeader.value \in {cronSecret.value, "Bearer " \o cronSecret.value}

\* !(!authHeader || authHeader !== expectedToken)
Authorized ==
    /\ authHeader.present
    /\ authHeader.value # ""
    /\ authHeader.value = "Bearer " \o cronSecret.value

\* if (!authHeader || authHeader !== expectedToken) return 401
RejectUnauthorized ==
    /\ checkPc = "request"
    /\ cronSecret.present /\ cronSecret.value # ""
    /\ ~Authorized
    /\ checkResponse' = [status |-> 401, content |-> "Unauthorized"]
    /\ checkPc' = "responded"
    /\ UNCHANGED <<cronSecret, authHeader, method, checkItems, checkIndex, results,
                   tally, scrapeCalls, sheetVars>>
    /\ UNCHANGED <<engineVars, budgetRouteVars, pageVars>>

\* const items = await getItemsForPriceCheck()
GetItemsForPriceCheck ==
    /\ checkPc = "request"
    /\ cronSecret.present /\ cronSecret.value # ""
    /\ Authorized
    /\ checkItems' = ForPriceCheck(wishlistSheet)
    /\ checkIndex' = 1
    /\ checkPc' = "loop"
    /\ UNCHANGED <<cronSecret, authHeader, method, checkResponse, results, tally,
                   scrapeCalls, sheetVars>>
    /\ UNCHANGED <<engineVars, budgetRouteVars, pageVars>>

\* getItemsForPriceCheck() throws: the handler's catch answers 500
GetItemsThrows ==
    /\ checkPc = "request"
    /\ cronSecret.present /\ cronSecret.value # ""
    /\ Authorized
    /\ checkResponse' = [status |-> 500, content |-> "Price check failed"]
    /\ checkPc' = "responded"
    /\ UNCHANGED <<cronSecret, authHeader, method, checkItems, checkIndex, results,
                   tally, scrapeCalls, sheetVars>>
    /\ UNCHANGED <<engineVars, budgetRouteVars, pageVars>>

\* const result = await checkItemPrice(item); results.push(result);
\* if (result.error || result.currentPrice === null) { failed++; continue }
CheckItem ==
    /\ checkPc = "loop"
    /\ checkIndex <= Len(checkItems)
    /\ \E outcome \in ScrapeOutcomes :
          LET item == checkItems[checkIndex]
              res == checkItemPrice(item, outcome)
          IN  /\ results' = Append(results, res)
              /\ scrapeCalls' = IF ~item.url.present \/ item.url.value = ""
                                THEN scrapeCalls
                                ELSE Append(scrapeCalls, item.url.value)
              /\ IF res.error # "" \/ res.currentPrice = NoPrice
                 THEN /\ tally' = [tally EXCEPT !.failed = @ + 1]
                      /\ checkIndex' = checkIndex + 1
                      /\ checkPc' = "loop"
                 ELSE /\ checkPc' = "update"
                      /\ UNCHANGED <<tally, checkIndex>>
    /\ UNCHANGED <<cronSecret, authHeader, method, checkResponse, checkItems, sheetVars>>
    /\ UNCHANGED <<engineVars, budgetRouteVars, pageVars>>

\* await updateItemAfterPriceCheck(...), then the counter of the branch
UpdateChecked ==
    /\ checkPc = "update"
    /\ LET item == checkItems[checkIndex]
           res == results[Len(results)]
       IN  /\ FindIndex(wishlistSheet, item.id) # 0
           /\ IF res.priceChanged
              THEN /\ wishlistSheet' =
                        AfterPriceCheck(wishlistSheet, item.id, res.currentPrice,
                                        res.previousPrice, "checkedAt")
                   /\ tally' = IF res.currentPrice < res.previousPrice
                               THEN [tally EXCEPT !.priceDrops = @ + 1]
                               ELSE [tally EXCEPT !.priceIncreases = @ + 1]
              ELSE /\ wishlistSheet' =
                        AfterPriceCheck(wishlistSheet, item.id, item.currentPrice,
                                        IF item.previousPrice # NoPrice
                                        THEN item.previousPrice ELSE item.currentPrice,
                                        "checkedAt")
                   /\ tally' = [tally EXCEPT !.unchanged = @ + 1]
    /\ checkIndex' = checkIndex + 1
    /\ checkPc' = "loop"
    /\ UNCHANGED <<cronSecret, authHeader, method, checkResponse, checkItems, results,
                   scrapeCalls>>
    /\ UNCHANGED <<sheetTitles, wishlistHeader, settingsSheet, initialized, callers>>
    /\ UNCHANGED <<engineVars, budgetRouteVars, pageVars>>

\* updateItemAfterPriceCheck throws: checkAllPrices rejects and the
\* handler's catch answers 500
UpdateThrows ==
    /\ checkPc = "update"
    /\ checkResponse' = [status |-> 500, content |-> "Price check failed"]
    /\ checkPc' = "responded"
    /\ UNCHANGED <<cronSecret, authHeader, method, checkItems, checkIndex, results,
                   tally, scrapeCalls, sheetVars>>
    /\ UNCHANGED <<engineVars, budgetRouteVars, pageVars>>

\* the summary checkAllPrices returns
Summary ==
    [totalChecked |-> Len(checkItems), priceDrops |-> tally.priceDrops,
     priceIncreases |-> tally.priceIncreases, unchanged |-> tally.unchanged,
     failed |-> tally.failed, results |-> results, checkedAt |-> "checkedAt"]

\* return { totalChecked: items.length, ... }; return Response.json({ summary })
ReturnSummary ==
    /\ checkPc = "loop"
    /\ checkIndex > Len(checkItems)
    /\ checkResponse' = [status |-> 200, content |-> Summary]
    /\ checkPc' = "responded"
    /\ UNCHANGED <<cronSecret, authHeader, method, checkItems, checkIndex, results,
                   tally, scrapeCalls, sheetVars>>
    /\ UNCHANGED <<engineVars, budgetRouteVars, pageVars>>

PriceCheckNext ==
    \/ RejectUnconfigured
    \/ RejectUnauthorized
    \/ GetItemsForPriceCheck
    \/ GetItemsThrows
    \/ CheckItem
    \/ UpdateChecked
    \/ UpdateThrows
    \/ ReturnSummary

SpecPriceCheck == InitPriceCheck /\ [][PriceCheckNext]_vars

\* ======================================================================
\* The store (src/lib/sheets.ts): ensureInitialized and initializeSheets
\* ======================================================================

MaxCallers == 2

\* A call of a function of the store: the function, its id argument, the
\* request it is waiting for, and its locals.
Call(op, id) ==
    [op |-> op, id |-> id, pc |-> "ensureInitialized",
     existingSheets |-> {}, existingCount |-> 0, newRowNumber |-> 0, rowIndex |-> 0,
     currentItem |-> <<>>]

\* the first request of a function after await ensureInitialized()
FirstRequest(op) ==
    CASE op = "getAllItems" -> "values.get A2:O"
      [] op = "getSettings" -> "values.get Settings"
      [] op = "addItem" -> "add: values.get A:A"
      [] op = "updateItem" -> "update: values.get A:A"
      [] op = "deleteItem" -> "delete: spreadsheets.get"

\* Spreadsheets a process may find: no sheet yet, sheets without header, a
\* Wishlist header that lacks its last column, and a spreadsheet set up
Spreadsheets ==
    { s \in [titles : SUBSET {WISHLIST_SHEET, SETTINGS_SHEET},
             header : {0, WISHLIST_HEADERS - 1, WISHLIST_HEADERS},
             settings : {<<>>, <<SETTINGS_HEADERS, DefaultSettings>>}] :
        /\ WISHLIST_SHEET \notin s.titles => s.header = 0
        /\ SETTINGS_SHEET \notin s.titles => s.settings = <<>> }

InitInitialize ==
    /\ Idle({"engine", "budget route", "price check", "page"})
    /\ wishlistSheet = <<>>
    /\ \E s \in Spreadsheets :
          /\ sheetTitles = s.titles
          /\ wishlistHeader = s.header
          /\ settingsSheet = s.settings
    /\ initialized = FALSE
    /\ callers \in [1..MaxCallers -> {Call(op, "") : op \in {"getAllItems", "getSettings"}}]

\* ensureInitialized: if (!initialized) the call enters initializeSheets,
\* which runs up to its first await
EnsureInitialized(c) ==
    /\ callers[c].pc = "ensureInitialized"
    /\ IF initialized
       THEN callers' = [callers EXCEPT ![c].pc = FirstRequest(callers[c].op)]
       ELSE callers' = [callers EXCEPT ![c].pc = "spreadsheets.get"]
    /\ UNCHANGED <<wishlistSheet, sheetTitles, wishlistHeader, settingsSheet, initialized>>
    /\ UNCHANGED <<engineVars, budgetRouteVars, priceCheckVars, pageVars>>

\* const spreadsheet = await sheets.spreadsheets.get(...)
GetSpreadsheet(c) ==
    /\ callers[c].pc = "spreadsheets.get"
    /\ callers' = [callers EXCEPT
          ![c].existingSheets = sheetTitles,
          ![c].pc = IF WISHLIST_SHEET \notin sheetTitles THEN "addSheet Wishlist"
                    ELSE IF SETTINGS_SHEET \notin sheetTitles THEN "addSheet Settings"
                    ELSE "values.get A1:O1"]
    /\ UNCHANGED <<wishlistSheet, sheetTitles, wishlistHeader, settingsSheet, initialized>>
    /\ UNCHANGED <<engineVars, budgetRouteVars, priceCheckVars, pageVars>>

\* batchUpdate addSheet Wishlist: the API refuses a title that exists, and
\* initializeSheets throws
AddWishlistSheet(c) ==
    /\ callers[c].pc = "addSheet Wishlist"
    /\ IF WISHLIST_SHEET \in sheetTitles
       THEN /\ callers' = [callers EXCEPT ![c].pc = "thrown"]
            /\ UNCHANGED sheetTitles
       ELSE /\ sheetTitles' = sheetTitles \cup {WISHLIST_SHEET}
            /\ callers' = [callers EXCEPT
                  ![c].pc = IF SETTINGS_SHEET \notin callers[c].existingSheets
                            THEN "addSheet Settings" ELSE "values.get A1:O1"]
    /\ UNCHANGED <<wishlistSheet, wishlistHeader, settingsSheet, initialized>>
    /\ UNCHANGED <<engineVars, budgetRouteVars, priceCheckVars, pageVars>>

\* batchUpdate addSheet Settings
AddSettingsSheet(c) ==
    /\ callers[c].pc = "addSheet Settings"
    /\ IF SETTINGS_SHEET \in sheetTitles
       THEN /\ callers' = [callers EXCEPT ![c].pc = "thrown"]
            /\ UNCHANGED sheetTitles
       ELSE /\ sheetTitles' = sheetTitles \cup {SETTINGS_SHEET}
            /\ callers' = [callers EXCEPT ![c].pc = "values.get A1:O1"]
    /\ UNCHANGED <<wishlistSheet, wishlistHeader, settingsSheet, initialized>>
    /\ UNCHANGED <<engineVars, budgetRouteVars, priceCheckVars, pageVars>>

\* const wishlistData = await values.get(Wishlist!A1:O1)
GetWishlistHeader(c) ==
    /\ callers[c].pc = "values.get A1:O1"
    /\ callers' = [callers EXCEPT
          ![c].existingCount = wishlistHeader,
          ![c].pc = IF wishlistHeader < WISHLIST_HEADERS THEN "values.update header"
                    ELSE "values.get A1:B1"]
    /\ UNCHANGED <<wishlistSheet, sheetTitles, wishlistHeader, settingsSheet, initialized>>
    /\ UNCHANGED <<engineVars, budgetRouteVars, priceCheckVars, pageVars>>

\* values.update of the whole header, or of the headers from existingCount on
PutWishlistHeader(c) ==
    /\ callers[c].pc = "values.update header"
    /\ wishlistHeader' = WISHLIST_HEADERS
    /\ callers' = [callers EXCEPT ![c].pc = "values.get A1:B1"]
    /\ UNCHANGED <<wishlistSheet, sheetTitles, settingsSheet, initialized>>
    /\ UNCHANGED <<engineVars, budgetRouteVars, priceCheckVars, pageVars>>

\* const settingsData = await values.get(Settings!A1:B1); with a header in
\* place initializeSheets returns and ensureInitialized sets the flag
GetSettingsHeader(c) ==
    /\ callers[c].pc = "values.get A1:B1"
    /\ IF Len(settingsSheet) = 0
       THEN /\ callers' = [callers EXCEPT ![c].pc = "values.update A1:B1"]
            /\ UNCHANGED initialized
       ELSE /\ callers' = [callers EXCEPT ![c].pc = FirstRequest(callers[c].op)]
            /\ initialized' = TRUE
    /\ UNCHANGED <<wishlistSheet, sheetTitles, wishlistHeader, settingsSheet>>
    /\ UNCHANGED <<engineVars, budgetRouteVars, priceCheckVars, pageVars>>

\* values.update(Settings!A1:B1, [SETTINGS_HEADERS])
PutSettingsHeader(c) ==
    /\ callers[c].pc = "values.update A1:B1"
    /\ settingsSheet' = IF Len(settingsSheet) = 0 THEN <<SETTINGS_HEADERS>>
                        ELSE [settingsSheet EXCEPT ![1] = SETTINGS_HEADERS]
    /\ callers' = [callers EXCEPT ![c].pc = "values.append"]
    /\ UNCHANGED <<wishlistSheet, sheetTitles, wishlistHeader, initialized>>
    /\ UNCHANGED <<engineVars, budgetRouteVars, priceCheckVars, pageVars>>

\* values.append(Settings!A:B, [['baseCurrency', 'USD']]); initializeSheets
\* returns and ensureInitialized sets the flag
AppendDefaultSettings(c) ==
    /\ callers[c].pc = "values.append"
    /\ settingsSheet' = Append(settingsSheet, DefaultSettings)
    /\ initialized' = TRUE
    /\ callers' = [callers EXCEPT ![c].pc = FirstRequest(callers[c].op)]
    /\ UNCHANGED <<wishlistSheet, sheetTitles, wishlistHeader>>
    /\ UNCHANGED <<engineVars, budgetRouteVars, priceCheckVars, pageVars>>

\* getAllItems and getSettings: the read after ensureInitialized
ReadSheet(c) ==
    /\ callers[c].pc \in {"values.get A2:O", "values.get Settings"}
    /\ callers' = [callers EXCEPT ![c].pc = "returned"]
    /\ UNCHANGED <<wishlistSheet, sheetTitles, wishlistHeader, settingsSheet, initialized>>
    /\ UNCHANGED <<engineVars, budgetRouteVars, priceCheckVars, pageVars>>

InitializeNext ==
    \/ \E c \in DOMAIN callers : EnsureInitialized(c)
    \/ \E c \in DOMAIN callers : GetSpreadsheet(c)
    \/ \E c \in DOMAIN callers : AddWishlistSheet(c)
    \/ \E c \in DOMAIN callers : AddSettingsSheet(c)
    \/ \E c \in DOMAIN callers : GetWishlistHeader(c)
    \/ \E c \in DOMAIN callers : PutWishlistHeader(c)
    \/ \E c \in DOMAIN callers : GetSettingsHeader(c)
    \/ \E c \in DOMAIN callers : PutSettingsHeader(c)
    \/ \E c \in DOMAIN callers : AppendDefaultSettings(c)
    \/ \E c \in DOMAIN callers : ReadSheet(c)

SpecInitialize == InitInitialize /\ [][InitializeNext]_vars

\* ======================================================================
\* The store: addItem, updateItem, deleteItem
\* ======================================================================

\* a row without a cell filled
BlankRow == Row("", "", NoPrice, FALSE, NoPrice)

\* the rows up to the last one that holds a cell: the grid below is empty
RECURSIVE Trim(_)
Trim(rows) ==
    IF rows # <<>> /\ rows[Len(rows)] = BlankRow
    THEN Trim(SubSeq(rows, 1, Len(rows) - 1))
    ELSE rows

\* the sheet with data row k replaced by newRow; rows of the grid in between
\* stay blank
WriteRow(rows, k, newRow) ==
    [j \in 1..(IF k > Len(rows) THEN k ELSE Len(rows)) |->
        IF j = k THEN newRow
        ELSE IF j <= Len(rows) THEN rows[j]
        ELSE BlankRow]

\* deleteDimension of data row k: the rows below move up and the
\* spreadsheet rewrites the references of their formulas
DeleteRow(rows, k) ==
    IF k > Len(rows) THEN rows
    ELSE Trim([j \in 1..(Len(rows) - 1) |->
                LET row == IF j < k THEN rows[j] ELSE rows[j + 1]
                IN  [row EXCEPT !.formulaRow =
                        IF @ > k + 1 THEN @ - 1 ELSE IF @ = k + 1 THEN 0 ELSE @]])

\* the new item of a call of addItem
NewItem(id) ==
    [id |-> id, url |-> Present("u"), currentPrice |-> 100, isPurchased |-> FALSE,
     lastChecked |-> "", previousPrice |-> NoPrice]

\* itemToRow: columns A to M of a row
itemToRow(item, row) ==
    [row EXCEPT !.id = item.id,
                !.url = IF item.url.present THEN item.url.value ELSE "",
                !.currentPrice = item.currentPrice,
                !.isPurchased = item.isPurchased,
                !.lastChecked = item.lastChecked]

\* the ids of the items calls add, one per caller, and the ids calls name
NewIds == <<"x", "y", "z">>
StoreCalls(c) ==
    {Call("addItem", NewIds[c])}
        \cup {Call(op, RowIds[k]) : op \in {"updateItem", "deleteItem"}, k \in 1..MaxRows}

\* sheets of rows that addItem wrote
StoredSheets ==
    { SheetOf([k \in 1..n |-> [url |-> "u", currentPrice |-> 100, isPurchased |-> FALSE,
                                previousPrice |-> NoPrice]]) : n \in 0..MaxRows }

InitStore ==
    /\ Idle({"engine", "budget route", "price check", "page"})
    /\ wishlistSheet \in StoredSheets
    /\ sheetTitles = {WISHLIST_SHEET, SETTINGS_SHEET}
    /\ wishlistHeader = WISHLIST_HEADERS
    /\ settingsSheet = <<SETTINGS_HEADERS, DefaultSettings>>
    /\ initialized = TRUE
    /\ callers \in { cs \in [1..MaxCallers -> UNION {StoreCalls(c) : c \in 1..MaxCallers}] :
                        \A c \in 1..MaxCallers : cs[c] \in StoreCalls(c) }

\* addItem: const rowCount = countResponse.data.values?.length ?? 1;
\* const newRowNumber = rowCount + 1
AddCount(c) ==
    /\ callers[c].pc = "add: values.get A:A"
    /\ LET rowCount == IF wishlistHeader = 0 /\ wishlistSheet = <<>> THEN 1
                       ELSE 1 + Len(wishlistSheet)
       IN  callers' = [callers EXCEPT ![c].newRowNumber = rowCount + 1,
                                      ![c].pc = "add: values.update"]
    /\ UNCHANGED <<wishlistSheet, sheetTitles, wishlistHeader, settingsSheet, initialized>>
    /\ UNCHANGED <<engineVars, budgetRouteVars, priceCheckVars, pageVars>>

\* addItem: values.update of A to N of row newRowNumber
AddWrite(c) ==
    /\ callers[c].pc = "add: values.update"
    /\ LET newRowNumber == callers[c].newRowNumber
           k == newRowNumber - 1
           row == IF k <= Len(wishlistSheet) THEN wishlistSheet[k] ELSE BlankRow
           written == [itemToRow(NewItem(callers[c].id), row)
                           EXCEPT !.formulaRow = newRowNumber]
       IN  wishlistSheet' = WriteRow(wishlistSheet, k, written)
    /\ callers' = [callers EXCEPT ![c].pc = "returned"]
    /\ UNCHANGED <<sheetTitles, wishlistHeader, settingsSheet, initialized>>
    /\ UNCHANGED <<engineVars, budgetRouteVars, priceCheckVars, pageVars>>

\* updateItem: const rowIndex = rows.findIndex(...); not found throws
UpdateFind(c) ==
    /\ callers[c].pc = "update: values.get A:A"
    /\ LET rowIndex == FindIndex(wishlistSheet, callers[c].id)
       IN  callers' = [callers EXCEPT
              ![c].rowIndex = rowIndex,
              ![c].pc = IF rowIndex = 0 THEN "thrown" ELSE "update: values.get row"]
    /\ UNCHANGED <<wishlistSheet, sheetTitles, wishlistHeader, settingsSheet, initialized>>
    /\ UNCHANGED <<engineVars, budgetRouteVars, priceCheckVars, pageVars>>

\* updateItem: const currentRow = await values.get(row rowIndex + 1); an
\* empty row throws
UpdateRead(c) ==
    /\ callers[c].pc = "update: values.get row"
    /\ LET k == callers[c].rowIndex
       IN  IF k > Len(wishlistSheet) \/ wishlistSheet[k] = BlankRow
           THEN callers' = [callers EXCEPT ![c].pc = "thrown"]
           ELSE callers' = [callers EXCEPT
                    ![c].currentItem = rowToItem(wishlistSheet[k]),
                    ![c].pc = "update: values.update"]
    /\ UNCHANGED <<wishlistSheet, sheetTitles, wishlistHeader, settingsSheet, initialized>>
    /\ UNCHANGED <<engineVars, budgetRouteVars, priceCheckVars, pageVars>>

\* updateItem: values.update of A to M of row rowIndex + 1 with
\* { ...currentItem, ...updates }, for updates = { isPurchased: true }
UpdateWrite(c) ==
    /\ callers[c].pc = "update: values.update"
    /\ LET updatedItem == [callers[c].currentItem EXCEPT !.isPurchased = TRUE]
           k == callers[c].rowIndex
           row == IF k <= Len(wishlistSheet) THEN wishlistSheet[k] ELSE BlankRow
           written == itemToRow(updatedItem, row)
       IN  wishlistSheet' = WriteRow(wishlistSheet, k, written)
    /\ callers' = [callers EXCEPT ![c].pc = "update: values.get again"]
    /\ UNCHANGED <<sheetTitles, wishlistHeader, settingsSheet, initialized>>
    /\ UNCHANGED <<engineVars, budgetRouteVars, priceCheckVars, pageVars>>

\* updateItem: the row is read again and returned
UpdateReread(c) ==
    /\ callers[c].pc = "update: values.get again"
    /\ LET k == callers[c].rowIndex
       IN  callers' = [callers EXCEPT
              ![c].currentItem = rowToItem(IF k <= Len(wishlistSheet)
                                           THEN wishlistSheet[k] ELSE BlankRow),
              ![c].pc = "returned"]
    /\ UNCHANGED <<wishlistSheet, sheetTitles, wishlistHeader, settingsSheet, initialized>>
    /\ UNCHANGED <<engineVars, budgetRouteVars, priceCheckVars, pageVars>>

\* deleteItem: the sheetId of the Wishlist sheet; without the sheet it throws
DeleteInfo(c) ==
    /\ callers[c].pc = "delete: spreadsheets.get"
    /\ callers' = [callers EXCEPT
          ![c].pc = IF WISHLIST_SHEET \in sheetTitles THEN "delete: values.get A:A"
                    ELSE "thrown"]
    /\ UNCHANGED <<wishlistSheet, sheetTitles, wishlistHeader, settingsSheet, initialized>>
    /\ UNCHANGED <<engineVars, budgetRouteVars, priceCheckVars, pageVars>>

\* deleteItem: const rowIndex = rows.findIndex(...); not found throws
DeleteFind(c) ==
    /\ callers[c].pc = "delete: values.get A:A"
    /\ LET rowIndex == FindIndex(wishlistSheet, callers[c].id)
       IN  callers' = [callers EXCEPT
              ![c].rowIndex = rowIndex,
              ![c].pc = IF rowIndex = 0 THEN "thrown" ELSE "delete: batchUpdate"]
    /\ UNCHANGED <<wishlistSheet, sheetTitles, wishlistHeader, settingsSheet, initialized>>
    /\ UNCHANGED <<engineVars, budgetRouteVars, priceCheckVars, pageVars>>

\* deleteItem: deleteDimension of rows rowIndex to rowIndex + 1
DeleteWrite(c) ==
    /\ callers[c].pc = "delete: batchUpdate"
    /\ wishlistSheet' = DeleteRow(wishlistSheet, callers[c].rowIndex)
    /\ callers' = [callers EXCEPT ![c].pc = "returned"]
    /\ UNCHANGED <<sheetTitles, wishlistHeader, settingsSheet, initialized>>
    /\ UNCHANGED <<engineVars, budgetRouteVars, priceCheckVars, pageVars>>

StoreNext ==
    \/ \E c \in DOMAIN callers : EnsureInitialized(c)
    \/ \E c \in DOMAIN callers : AddCount(c)
    \/ \E c \in DOMAIN callers : AddWrite(c)
    \/ \E c \in DOMAIN callers : UpdateFind(c)
    \/ \E c \in DOMAIN callers : UpdateRead(c)
    \/ \E c \in DOMAIN callers : UpdateWrite(c)
    \/ \E c \in DOMAIN callers : UpdateReread(c)
    \/ \E c \in DOMAIN callers : DeleteInfo(c)
    \/ \E c \in DOMAIN callers : DeleteFind(c)
    \/ \E c \in DOMAIN callers : DeleteWrite(c)

SpecStore == InitStore /\ [][StoreNext]_vars

\* ======================================================================
\* The wishlist page (src/app/page.tsx): handleTogglePurchased
\* ======================================================================

MaxToggles == 3

\* the ids of the items the page shows
PageIds == {"a", "b"}

InitPage ==
    /\ Idle({"engine", "budget route", "store", "price check"})
    /\ serverItems \in [PageIds -> BOOLEAN]
    /\ pageItems = serverItems
    /\ inflight = {}
    /\ issued = 0
    /\ errorsLogged = 0

\* isPurchased: !isPurchased
RolledBack(request) == ~request.isPurchased

\* A click on the toggle of item id: onTogglePurchased(item.id,
\* !item.isPurchased); the optimistic update; the PUT request is sent
TogglePurchased(id) ==
    /\ issued < MaxToggles
    /\ LET isPurchased == ~pageItems[id]
       IN  /\ pageItems' = [pageItems EXCEPT ![id] = isPurchased]
           /\ inflight' = inflight \cup
                 {[n |-> issued + 1, id |-> id, isPurchased |-> isPurchased,
                   state |-> "sent", item |-> isPurchased]}
    /\ issued' = issued + 1
    /\ UNCHANGED <<serverItems, errorsLogged>>
    /\ UNCHANGED <<engineVars, budgetRouteVars, sheetVars, priceCheckVars>>

\* PUT /api/items/[id] succeeds: the store is updated and the response
\* carries the item as stored
PutSucceeds(request) ==
    /\ request.state = "sent"
    /\ serverItems' = [serverItems EXCEPT ![request.id] = request.isPurchased]
    /\ inflight' = (inflight \ {request})
                       \cup {[request EXCEPT !.state = "ok", !.item = request.isPurchased]}
    /\ UNCHANGED <<pageItems, issued, errorsLogged>>
    /\ UNCHANGED <<engineVars, budgetRouteVars, sheetVars, priceCheckVars>>

\* PUT /api/items/[id] fails: fetch throws or the response is not ok
PutFails(request) ==
    /\ request.state = "sent"
    /\ inflight' = (inflight \ {request}) \cup {[request EXCEPT !.state = "failed"]}
    /\ UNCHANGED <<pageItems, serverItems, issued, errorsLogged>>
    /\ UNCHANGED <<engineVars, budgetRouteVars, sheetVars, priceCheckVars>>

\* setItems((prev) => prev.map((item) => (item.id === id ? data.item : item)))
ApplyResponse(request) ==
    /\ request.state = "ok"
    /\ pageItems' = [pageItems EXCEPT ![request.id] = request.item]
    /\ inflight' = inflight \ {request}
    /\ UNCHANGED <<serverItems, issued, errorsLogged>>
    /\ UNCHANGED <<engineVars, budgetRouteVars, sheetVars, priceCheckVars>>

\* catch: the rollback, and console.error
Rollback(request) ==
    /\ request.state = "failed"
    /\ pageItems' = [pageItems EXCEPT ![request.id] = RolledBack(request)]
    /\ inflight' = inflight \ {request}
    /\ errorsLogged' = errorsLogged + 1
    /\ UNCHANGED <<serverItems, issued>>
    /\ UNCHANGED <<engineVars, budgetRouteVars, sheetVars, priceCheckVars>>

PageNext ==
    \/ \E id \in PageIds : TogglePurchased(id)
    \/ \E request \in inflight : PutSucceeds(request)
    \/ \E request \in inflight : PutFails(request)
    \/ \E request \in inflight : ApplyResponse(request)
    \/ \E request \in inflight : Rollback(request)

SpecPage == InitPage /\ [][PageNext]_vars

\* ======================================================================
\* Reference notions of the specification (spec.md, sections 3 and 4)
\* ======================================================================

\* a valid positive finite number
ValidPositive(x) == x.kind = "num" /\ ~x.neg /\ x.mag # Zero

\* section 4, step 1: the effective base price of an item, or Null
RefEffectivePrice(item, base) ==
    IF ValidPositive(item.priceInBaseCurrency) THEN item.priceInBaseCurrency
    ELSE IF item.currency = base /\ ValidPositive(item.currentPrice)
         THEN item.currentPrice
         ELSE Null

\* section 4, step 2: not purchased, price resolved, price <= budget
RefEligible(item, b, base) ==
    /\ ~item.isPurchased
    /\ RefEffectivePrice(item, base) # Null
    /\ Le(RefEffectivePrice(item, base).mag, b.mag)

\* the ids of the items of a suggestion, as a sequence and as a set
Ids(s) == [k \in DOMAIN s.items |-> s.items[k].id]
IdSet(s) == {s.items[k].id : k \in DOMAIN s.items}

\* the ids of all items of the returned suggestions
ReturnedIds == UNION {IdSet(result[r]) : r \in DOMAIN result}

Returned == pc = "done"
Generated == pc \in {"generated", "done"} /\ suggestions # <<>>

\* The order a strategy visits the list avail in: index j comes before index
\* i iff Better(j, i).  Better is a strict total order on the indices.
RefVisit(avail, Better(_, _)) ==
    [k \in DOMAIN avail |->
        CHOOSE i \in DOMAIN avail :
            Cardinality({j \in DOMAIN avail : Better(j, i)}) = k - 1]

\* The reference greedy fill: the indices, among visit[k..], of the items
\* selected when the budget remaining before visit[k] is remaining.
RECURSIVE RefFill(_, _, _, _)
RefFill(avail, visit, k, remaining) ==
    IF k > Len(visit) THEN <<>>
    ELSE LET price == avail[visit[k]].priceInBaseCurrency.mag
         IN  IF Le(price, remaining)
             THEN <<visit[k]>> \o RefFill(avail, visit, k + 1, FSub(remaining, price))
             ELSE RefFill(avail, visit, k + 1, remaining)

RefGreedyIds(avail, Better(_, _)) ==
    LET sel == RefFill(avail, RefVisit(avail, Better), 1, budget.mag)
    IN  [k \in DOMAIN sel |-> avail[sel[k]].id]

\* ======================================================================
\* C1
\* ======================================================================

\* C1: every item of every returned suggestion is not purchased, has a
\* resolved effective base price greater than 0, and that price is <= budget.
C1_SuggestedItemsEligible ==
    Returned =>
        \A id \in ReturnedIds :
            /\ ~items[id].isPurchased
            /\ ValidPositive(RefEffectivePrice(items[id], baseCurrency))
            /\ Le(RefEffectivePrice(items[id], baseCurrency).mag, budget.mag)

\* a suggestion is returned although the wishlist holds a purchased item, an
\* item without a price and an item priced by the fallback
C1_Witness ==
    /\ Returned
    /\ result # <<>>
    /\ \E i \in DOMAIN items : items[i].isPurchased \/ ~RefEligible(items[i], budget, baseCurrency)
    /\ \E i \in ReturnedIds : ~ValidPositive(items[i].priceInBaseCurrency)

\* ======================================================================
\* C2
\* ======================================================================

HigherPriorityFirst(j, i) ==
    \/ available[j].priority > available[i].priority
    \/ available[j].priority = available[i].priority /\ j < i

\* C2: the item sequence of the high-priority strategy is the reference
\* greedy over the eligible items visited by priority descending, equal
\* priorities in input order; it is returned first, and its first item is
\* the earliest eligible item of the highest priority.
C2_HighPriorityIsReferenceGreedy ==
    /\ Generated =>
          /\ suggestions[1].strategy = "high-priority"
          /\ Ids(suggestions[1]) = RefGreedyIds(available, HigherPriorityFirst)
          /\ LET top == CHOOSE i \in DOMAIN available :
                            \A j \in DOMAIN available : j = i \/ HigherPriorityFirst(i, j)
             IN  suggestions[1].items[1].id = available[top].id
    /\ Returned /\ result # <<>> =>
          /\ result[1].strategy = "high-priority"
          /\ Ids(result[1]) = RefGreedyIds(available, HigherPriorityFirst)

\* the top-priority item is taken although it leaves no room for two items
\* of lower priority that fit together, and it is not first in the input
C2_Witness ==
    /\ Returned
    /\ Len(available) >= 3
    /\ Len(result[1].items) = 1
    /\ result[1].items[1].id # items[1].id
    /\ \E r \in DOMAIN result : Len(result[r].items) >= 2

\* ======================================================================
\* C3
\* ======================================================================

RECURSIVE ExactTotal(_, _)
ExactTotal(avail, S) ==
    IF S = {} THEN Zero
    ELSE LET i == CHOOSE j \in S : TRUE
         IN  AddExact(avail[i].priceInBaseCurrency.mag, ExactTotal(avail, S \ {i}))

\* C3: no subset of the eligible items whose total effective price is
\* <= budget has more items than the most-items selection.
C3_MostItemsMaximizesCount ==
    Generated =>
        \A S \in SUBSET DOMAIN available :
            Le(ExactTotal(available, S), budget.mag)
                => Cardinality(S) <= Len(suggestions[2].items)

\* ======================================================================
\* C4
\* ======================================================================

\* priority divided by effective price, as JavaScript numbers, for the first
\* n items of avail
RECURSIVE Ratios(_, _)
Ratios(avail, n) ==
    IF n = 0 THEN <<>>
    ELSE Append(Ratios(avail, n - 1),
                FDivInt(avail[n].priority, avail[n].priceInBaseCurrency.mag))

\* C4: the item sequence of the best-value strategy is the reference greedy
\* over the eligible items visited by priority / effective price descending,
\* equal ratios in input order, selected items in visiting order.
C4_BestValueIsReferenceGreedy ==
    Generated =>
        LET ratio == Ratios(available, Len(available))
            BetterValueFirst(j, i) ==
                \/ Lt(ratio[i], ratio[j])
                \/ ratio[j] = ratio[i] /\ j < i
        IN  /\ suggestions[3].strategy = "best-value"
            /\ Ids(suggestions[3]) = RefGreedyIds(available, BetterValueFirst)

\* best-value is returned as a third, distinct suggestion
C4_Witness ==
    /\ Returned
    /\ Len(result) = 3
    /\ result[3].strategy = "best-value"
    /\ Len(result[3].items) >= 2

\* ======================================================================
\* C5
\* ======================================================================

\* C5: the returned suggestions have pairwise different sets of item ids,
\* and of the strategies that select one set of ids exactly the earliest in
\* [high-priority, most-items, best-value] is returned.
C5_DistinctIdSetsEarliestKept ==
    Returned /\ suggestions # <<>> =>
        /\ \A a, b \in DOMAIN result :
              a # b => IdSet(result[a]) # IdSet(result[b])
        /\ \A j \in DOMAIN suggestions :
              (\E r \in DOMAIN result : result[r] = suggestions[j])
                  <=> ~\E i \in 1..(j - 1) : IdSet(suggestions[i]) = IdSet(suggestions[j])

\* two strategies select the same ids in different orders; one is dropped
C5_Witness ==
    /\ Returned
    /\ Len(result) = 2
    /\ \E i, j \in DOMAIN suggestions :
          /\ i < j
          /\ IdSet(suggestions[i]) = IdSet(suggestions[j])
          /\ Ids(suggestions[i]) # Ids(suggestions[j])

\* ======================================================================
\* C6
\* ======================================================================

StrategyRank(name) ==
    CASE name = "high-priority" -> 1
      [] name = "most-items" -> 2
      [] name = "best-value" -> 3

\* C6: the returned list has 0 to 3 suggestions, no strategy twice, no
\* suggestion without items, and the strategies in the relative order
\* high-priority, most-items, best-value.
C6_ShapeOfResult ==
    Returned =>
        /\ Len(result) \in 0..3
        /\ \A r \in DOMAIN result :
              /\ result[r].strategy \in {"high-priority", "most-items", "best-value"}
              /\ Len(result[r].items) > 0
        /\ \A a, b \in DOMAIN result :
              a < b => StrategyRank(result[a].strategy) < StrategyRank(result[b].strategy)

\* high-priority and most-items are returned, best-value was dropped as a
\* duplicate of high-priority
C6_Witness ==
    /\ Returned
    /\ Len(result) = 2
    /\ result[1].strategy = "high-priority"
    /\ result[2].strategy = "most-items"
    /\ IdSet(suggestions[3]) = IdSet(suggestions[1])

\* ======================================================================
\* C7
\* ======================================================================

\* C7: suggestPurchases returns the empty list whenever no item is eligible.
C7_EmptyWhenNoneEligible ==
    Returned /\ (\A i \in DOMAIN items : ~RefEligible(items[i], budget, baseCurrency))
        => result = <<>>

\* a wishlist of two items, one purchased and one unpurchased over budget or
\* without a price, returns the empty list
C7_Witness ==
    /\ Returned
    /\ result = <<>>
    /\ Len(items) = 2
    /\ \E i \in DOMAIN items :
          items[i].isPurchased /\ ValidPositive(items[i].priceInBaseCurrency)
    /\ \E i \in DOMAIN items : ~items[i].isPurchased

\* ======================================================================
\* C8
\* ======================================================================

\* C8: an item whose priceInBaseCurrency is not a valid positive finite
\* number, whose currency is baseCurrency and whose currentPrice is positive
\* is priced at currentPrice; it is eligible whenever it is unpurchased and
\* currentPrice <= budget.
C8_FallbackToCurrentPrice ==
    pc = "filtered" =>
        \A i \in DOMAIN items :
            /\ ~ValidPositive(items[i].priceInBaseCurrency)
            /\ items[i].currency = baseCurrency
            /\ ValidPositive(items[i].currentPrice)
            /\ ~items[i].isPurchased
            /\ Le(items[i].currentPrice.mag, budget.mag)
            => \E k \in DOMAIN available :
                  /\ available[k].id = items[i].id
                  /\ available[k].priceInBaseCurrency = items[i].currentPrice

\* ======================================================================
\* C9
\* ======================================================================

Without(i) == SelectSeq(items, LAMBDA item : item.id # i)

\* C9: an item without a valid positive priceInBaseCurrency whose currency
\* differs from baseCurrency is in no suggestion, and the result equals the
\* result of the same call without that item.
C9_UnconvertedForeignItemExcluded ==
    Returned =>
        \A i \in DOMAIN items :
            /\ ~ValidPositive(items[i].priceInBaseCurrency)
            /\ items[i].currency # baseCurrency
            => /\ i \notin ReturnedIds
               /\ result = suggestPurchases(Without(i), budget, baseCurrency)

\* such an item, unpurchased and with a currentPrice within budget, stands
\* first in a wishlist whose other item is returned
C9_Witness ==
    /\ Returned
    /\ result # <<>>
    /\ Len(items) = 2
    /\ ~ValidPositive(items[1].priceInBaseCurrency)
    /\ items[1].currency # baseCurrency
    /\ ~items[1].isPurchased
    /\ ValidPositive(items[1].currentPrice)
    /\ Le(items[1].currentPrice.mag, budget.mag)

\* ======================================================================
\* C10
\* ======================================================================

\* what a caller reads off a result apart from the copies of the items
Outline(res) ==
    [r \in DOMAIN res |->
        [strategy |-> res[r].strategy, ids |-> Ids(res[r]),
         prices |-> [k \in DOMAIN res[r].items |-> res[r].items[k].priceInBaseCurrency],
         totalCost |-> res[r].totalCost, priorityScore |-> res[r].priorityScore,
         remaining |-> res[r].remaining]]

OtherCurrentPrice(c) == IF c = Dollars(1) THEN Dollars(2) ELSE Dollars(1)

\* the wishlist with another currentPrice on every item whose
\* priceInBaseCurrency is a valid positive number
Repriced ==
    [i \in DOMAIN items |->
        IF ValidPositive(items[i].priceInBaseCurrency)
        THEN [items[i] EXCEPT !.currentPrice = OtherCurrentPrice(@)]
        ELSE items[i]]

\* C10: an item with a valid positive priceInBaseCurrency is priced at
\* priceInBaseCurrency, and its currentPrice does not influence the result.
C10_ConvertedPricePreferred ==
    Returned =>
        /\ \A r \in DOMAIN result : \A k \in DOMAIN result[r].items :
              LET i == result[r].items[k].id
              IN  ValidPositive(items[i].priceInBaseCurrency)
                      => result[r].items[k].priceInBaseCurrency
                             = items[i].priceInBaseCurrency
        /\ Outline(result) = Outline(suggestPurchases(Repriced, budget, baseCurrency))

\* an item in base currency whose currentPrice is positive and differs from
\* its priceInBaseCurrency is returned
C10_Witness ==
    /\ Returned
    /\ \E i \in ReturnedIds :
          /\ ValidPositive(items[i].priceInBaseCurrency)
          /\ items[i].currency = baseCurrency
          /\ ValidPositive(items[i].currentPrice)
          /\ items[i].currentPrice # items[i].priceInBaseCurrency

\* ======================================================================
\* Decimal readings of the amounts (C11 - C15)
\* ======================================================================

\* The inputs are written in thousandths and the reported amounts in
\* hundredths; these give the decimal value behind a JavaScript number.
MillsOf(x) == MathRound(FMulSmall(x.mag, 1000))[Limbs]
CentsOf(x) == MathRound(FMulSmall(x.mag, 100))[Limbs]

\* thousandths rounded to hundredths: half up (Math.round) and half to even
HalfUp(n) == (n + 5) \div 10
HalfEven(n) ==
    IF n % 10 > 5 \/ (n % 10 = 5 /\ (n \div 10) % 2 = 1)
    THEN n \div 10 + 1
    ELSE n \div 10

RECURSIVE SumMills(_, _)
SumMills(selected, n) ==
    IF n = 0 THEN 0
    ELSE SumMills(selected, n - 1) + MillsOf(selected[n].priceInBaseCurrency)

\* ======================================================================
\* C11
\* ======================================================================

\* C11: the totalCost of every returned suggestion is the exact sum of the
\* effective prices of its items, rounded once to 2 decimal places (half up
\* or, at the least, half to even).
C11_TotalCostIsRoundedExactSum ==
    Returned =>
        \A r \in DOMAIN result :
            LET sum == SumMills(result[r].items, Len(result[r].items))
            IN  CentsOf(result[r].totalCost) \in {HalfUp(sum), HalfEven(sum)}

\* ======================================================================
\* C12
\* ======================================================================

\* C12: the remaining of every returned suggestion is budget minus the
\* suggestion's own totalCost, rounded to 2 decimal places.
C12_RemainingIsBudgetMinusTotalCost ==
    Returned =>
        \A r \in DOMAIN result :
            LET rest == MillsOf(budget) - 10 * CentsOf(result[r].totalCost)
            IN  CentsOf(result[r].remaining) \in {HalfUp(rest), HalfEven(rest)}

\* ======================================================================
\* C13
\* ======================================================================

\* totalCost + remaining - budget of a suggestion, in thousandths
Excess(s) == 10 * (CentsOf(s.totalCost) + CentsOf(s.remaining)) - MillsOf(budget)

RECURSIVE NeverOverdrawn(_, _, _)
NeverOverdrawn(selected, k, r) ==
    IF k > Len(selected) THEN TRUE
    ELSE /\ Le(selected[k].priceInBaseCurrency.mag, r)
         /\ NeverOverdrawn(selected, k + 1, FSub(r, selected[k].priceInBaseCurrency.mag))

RECURSIVE LastRemainder(_, _, _)
LastRemainder(selected, k, r) ==
    IF k > Len(selected) THEN r
    ELSE LastRemainder(selected, k + 1, FSub(r, selected[k].priceInBaseCurrency.mag))

\* C14: in every strategy the running remaining budget is never negative,
\* and the remaining reported by every suggestion is the rounded last
\* remainder, a number >= 0.
C14_RemainingNeverNegative ==
    Generated =>
        \A s \in DOMAIN suggestions :
            /\ NeverOverdrawn(suggestions[s].items, 1, budget.mag)
            /\ suggestions[s].remaining.kind = "num"
            /\ ~suggestions[s].remaining.neg
            /\ suggestions[s].remaining
                   = Num(Round2(LastRemainder(suggestions[s].items, 1, budget.mag)))

\* two items were selected and a third one, which fits the budget but not
\* what is left of it, was passed over
C14_Witness ==
    /\ Returned
    /\ \E r \in DOMAIN result :
          /\ Len(result[r].items) = 2
          /\ Len(available) = 3
          /\ result[r].remaining # Num(Zero)

\* ======================================================================
\* C15
\* ======================================================================

\* C15: the totalCost of every returned suggestion is <= budget.
C15_TotalCostWithinBudget ==
    Returned =>
        \A r \in DOMAIN result : ~JsGt(result[r].totalCost, budget)

\* ======================================================================
\* C16
\* ======================================================================

\* the sum of the priorities of the items whose ids are in S
RECURSIVE PriorityOfIds(_)
PriorityOfIds(S) ==
    IF S = {} THEN 0
    ELSE LET id == CHOOSE x \in S : TRUE
         IN  items[id].priority + PriorityOfIds(S \ {id})

\* C16: the priorityScore of every returned suggestion is the sum of the
\* priorities of its items.
C16_PriorityScoreIsSum ==
    Returned =>
        \A r \in DOMAIN result :
            /\ Cardinality(IdSet(result[r])) = Len(result[r].items)
            /\ result[r].priorityScore = PriorityOfIds(IdSet(result[r]))

\* a suggestion of three items of three different priorities
C16_Witness ==
    /\ Returned
    /\ \E r \in DOMAIN result :
          /\ Len(result[r].items) = 3
          /\ {result[r].items[k].priority : k \in 1..3} = Priorities
          /\ result[r].priorityScore = 7

\* ======================================================================
\* C17
\* ======================================================================

CheaperFirst(j, i) ==
    \/ Lt(available[j].priceInBaseCurrency.mag, available[i].priceInBaseCurrency.mag)
    \/ /\ available[j].priceInBaseCurrency = available[i].priceInBaseCurrency
       /\ j < i

\* The budget remaining before the k-th visited item, given the ids that the
\* strategy selected among the items visited before it.
RECURSIVE RemainderBefore(_, _, _)
RemainderBefore(visit, ids, k) ==
    IF k = 1 THEN budget.mag
    ELSE LET before == RemainderBefore(visit, ids, k - 1)
             item == available[visit[k - 1]]
         IN  IF item.id \in ids /\ Le(item.priceInBaseCurrency.mag, before)
             THEN FSub(before, item.priceInBaseCurrency.mag)
             ELSE before

\* an item priced exactly at what is left when it is visited is selected and
\* leaves nothing
TakesExactFit(s, visit) ==
    \A k \in DOMAIN visit :
        available[visit[k]].priceInBaseCurrency.mag = RemainderBefore(visit, IdSet(s), k)
            => /\ available[visit[k]].id \in IdSet(s)
               /\ s.remaining = Num(Zero)

\* C17: the fit test is inclusive.  In every strategy an item whose price
\* equals the budget remaining when it is visited is selected and leaves
\* remaining = 0; most-items selects a cheapest item priced at the budget.
C17_FitTestInclusive ==
    pc = "generated" =>
        LET ratio == Ratios(available, Len(available))
            BetterValueFirst(j, i) ==
                \/ Lt(ratio[i], ratio[j])
                \/ ratio[j] = ratio[i] /\ j < i
        IN  /\ TakesExactFit(suggestions[1], RefVisit(available, HigherPriorityFirst))
            /\ TakesExactFit(suggestions[2], RefVisit(available, CheaperFirst))
            /\ TakesExactFit(suggestions[3], RefVisit(available, BetterValueFirst))
            /\ (\A i \in DOMAIN available :
                    ~Lt(available[i].priceInBaseCurrency.mag, budget.mag))
                   => /\ Len(suggestions[2].items) = 1
                      /\ suggestions[2].items[1].id = available[1].id
                      /\ suggestions[2].remaining = Num(Zero)

\* a strategy selected two or more items, the last of which cost exactly
\* what the others had left
C17_Witness ==
    /\ pc = "generated"
    /\ Len(available) >= 2
    /\ \E s \in DOMAIN suggestions :
          /\ Len(suggestions[s].items) >= 2
          /\ suggestions[s].remaining = Num(Zero)

\* ======================================================================
\* C18
\* ======================================================================

\* all eligible items have the same priority and the same price
AllAlike ==
    \A i, j \in DOMAIN available :
        /\ available[i].priority = available[j].priority
        /\ available[i].priceInBaseCurrency = available[j].priceInBaseCurrency

\* C18: ties are broken stably.  Every strategy selects what the reference
\* greedy selects when items with equal sort keys are visited in input
\* order; when all k eligible items are alike and only m < k of them fit,
\* every strategy selects the first m of them and high-priority alone is
\* returned.
C18_TiesInInputOrder ==
    /\ pc = "generated" =>
          LET ratio == Ratios(available, Len(available))
              BetterValueFirst(j, i) ==
                  \/ Lt(ratio[i], ratio[j])
                  \/ ratio[j] = ratio[i] /\ j < i
          IN  /\ Ids(suggestions[1]) = RefGreedyIds(available, HigherPriorityFirst)
              /\ Ids(suggestions[2]) = RefGreedyIds(available, CheaperFirst)
              /\ Ids(suggestions[3]) = RefGreedyIds(available, BetterValueFirst)
    /\ Returned /\ suggestions # <<>> /\ AllAlike
          /\ Len(suggestions[1].items) < Len(available) =>
          /\ \A s \in 1..3 :
                Ids(suggestions[s])
                    = [k \in 1..Len(suggestions[1].items) |-> available[k].id]
          /\ Len(result) = 1
          /\ result[1].strategy = "high-priority"

\* three eligible items are alike and two of them fit
C18_Witness ==
    /\ Returned
    /\ Len(available) = 3
    /\ AllAlike
    /\ Len(result) = 1
    /\ Len(result[1].items) = 2

\* ======================================================================
\* C19
\* ======================================================================

C20_InputUnchanged == [][items' = items]_vars

\* an item priced by the same-currency fallback is returned: the returned
\* copy carries the effective price, the input item still carries its own
C20_Witness ==
    /\ Returned
    /\ \E r \in DOMAIN result : \E k \in DOMAIN result[r].items :
          LET copy == result[r].items[k]
          IN  /\ copy.priceInBaseCurrency = items[copy.id].currentPrice
              /\ ~ValidPositive(items[copy.id].priceInBaseCurrency)

\* ======================================================================
\* C24
\* ======================================================================

BadBudget ==
    /\ body.kind = "object"
    /\ \/ body.budget \in {Undefined, Null}
       \/ body.budget.kind # "num"
       \/ body.budget.neg
       \/ body.budget.mag = Zero

C22_MissingCurrencyRejected ==
    (body.kind = "object" /\ body.currency = Undefined) => pc = "idle"

\* ======================================================================
\* C23
\* ======================================================================

\* no item has been scraped and no row of the store has been updated
StoreUntouched ==
    /\ scrapeCalls = <<>>
    /\ results = <<>>
    /\ \A k \in DOMAIN wishlistSheet : wishlistSheet[k].lastChecked = ""

\* the Authorization header is 'Bearer ' followed by CRON_SECRET
BearerOfSecret ==
    /\ cronSecret.present
    /\ authHeader.present
    /\ authHeader.value = "Bearer " \o cronSecret.value

\* C23: the price-check endpoint, by POST and by GET, runs checkAllPrices
\* only when the Authorization header is 'Bearer ' followed by CRON_SECRET;
\* with CRON_SECRET unset it answers 500, with a missing or different header
\* it answers 401, and in both cases nothing is scraped and no row updated.
C23_PriceCheckGuarded ==
    /\ checkPc \in {"loop", "update"} => BearerOfSecret
    /\ ~StoreUntouched => BearerOfSecret
    /\ ~cronSecret.present =>
          /\ StoreUntouched
          /\ checkPc \in {"request", "responded"}
          /\ checkPc = "responded" => checkResponse.status = 500
    /\ (cronSecret.present /\ cronSecret.value # "" /\ ~BearerOfSecret) =>
          /\ StoreUntouched
          /\ checkPc \in {"request", "responded"}
          /\ checkPc = "responded" => checkResponse.status = 401

\* a GET whose header carries another secret has been answered 401 while
\* the sheet holds a row to be checked
C23_Witness ==
    /\ method = "GET"
    /\ checkPc = "responded"
    /\ checkResponse.status = 401
    /\ authHeader = Present("Bearer other")
    /\ \E k \in DOMAIN wishlistSheet :
          wishlistSheet[k].url # "" /\ ~wishlistSheet[k].isPurchased

\* ======================================================================
\* C29
\* ======================================================================

\* a result that checkAllPrices counts as failed
IsFailed(r) == r.error # "" \/ r.currentPrice = NoPrice

\* the ids of the rows eligible for price checking (with a URL, not
\* purchased), in the order of the sheet
RECURSIVE EligibleIds(_, _)
EligibleIds(rows, n) ==
    IF n = 0 THEN <<>>
    ELSE IF rows[n].url # "" /\ ~rows[n].isPurchased
         THEN Append(EligibleIds(rows, n - 1), rows[n].id)
         ELSE EligibleIds(rows, n - 1)

\* C29: every summary checkAllPrices returns has priceDrops +
\* priceIncreases + unchanged + failed = totalChecked = the number of
\* results, with one result per item eligible for price checking, in the
\* order the items were read; an item counted as failed causes no write.
C29_SummaryAccounts ==
    /\ (checkPc = "responded" /\ checkResponse.status = 200) =>
          LET s == checkResponse.content
          IN  /\ s.priceDrops + s.priceIncreases + s.unchanged + s.failed = s.totalChecked
              /\ s.totalChecked = Len(s.results)
              /\ [k \in DOMAIN s.results |-> s.results[k].itemId]
                    = EligibleIds(wishlistSheet, Len(wishlistSheet))
              /\ s.failed = Cardinality({k \in DOMAIN s.results : IsFailed(s.results[k])})
    /\ \A k \in DOMAIN results :
          IsFailed(results[k]) =>
              \A j \in DOMAIN wishlistSheet :
                  wishlistSheet[j].id = results[k].itemId => wishlistSheet[j].lastChecked = ""

\* a summary of two results: one item failed, the price of the other dropped
C29_Witness ==
    /\ checkPc = "responded"
    /\ checkResponse.status = 200
    /\ checkResponse.content.totalChecked = 2
    /\ checkResponse.content.failed = 1
    /\ checkResponse.content.priceDrops = 1

\* ======================================================================
\* C26
\* ======================================================================

\* the requests of initializeSheets
InsideInitializeSheets ==
    {"spreadsheets.get", "addSheet Wishlist", "addSheet Settings", "values.get A1:O1",
     "values.update header", "values.get A1:B1", "values.update A1:B1", "values.append"}

\* C26: sheet initialisation runs at most once per process: however the
\* first calls of ensureInitialized overlap, at most one of them is inside
\* initializeSheets, the default 'baseCurrency' row is appended at most once
\* and no sheet is created twice.
C26_InitialisedOnce ==
    /\ Cardinality({c \in DOMAIN callers : callers[c].pc \in InsideInitializeSheets}) <= 1
    /\ Cardinality({k \in DOMAIN settingsSheet : settingsSheet[k] = DefaultSettings}) <= 1
    /\ \A c \in DOMAIN callers : callers[c].pc # "thrown"

\* ======================================================================
\* C27
\* ======================================================================

\* every call is a call of addItem
OnlyAdding == \A c \in DOMAIN callers : callers[c].op = "addItem"

\* the calls of addItem that have chosen their row number
HaveChosen == {c \in DOMAIN callers : callers[c].newRowNumber # 0}

\* C27: addItem never loses an item: when concurrent calls of addItem for
\* distinct ids have returned, every added item occupies a row of its own;
\* no call writes to the row number another call chose; and the formula in
\* column N of a row refers to that row.
C27_AddItemLosesNothing ==
    OnlyAdding =>
        /\ \A c, d \in HaveChosen :
              c # d => callers[c].newRowNumber # callers[d].newRowNumber
        /\ \A c \in DOMAIN callers :
              callers[c].pc = "returned" =>
                  \E k \in DOMAIN wishlistSheet : wishlistSheet[k].id = callers[c].id
        /\ \A k \in DOMAIN wishlistSheet :
              wishlistSheet[k] # BlankRow => wishlistSheet[k].formulaRow = k + 1

\* ======================================================================
\* C28
\* ======================================================================

\* the call c of updateItem or deleteItem is about to write and the row it
\* is about to write holds the item of another id
HitsAnotherItem(c) ==
    /\ callers[c].pc \in {"update: values.update", "delete: batchUpdate"}
    /\ callers[c].rowIndex <= Len(wishlistSheet)
    /\ wishlistSheet[callers[c].rowIndex].id \notin {"", callers[c].id}

\* C28: updateItem and deleteItem affect only the row whose ID column holds
\* their id at the moment of the write: no write of updateItem overwrites,
\* and no write of deleteItem removes, the row of an item with another id.
C28_WritesHitOwnRow ==
    [][\A c \in DOMAIN callers :
          HitsAnotherItem(c) => callers'[c].pc = callers[c].pc]_vars

\* ======================================================================
\* C30
\* ======================================================================

\* every PUT request sent has failed and has been handled
AllTogglesFailed ==
    /\ issued > 0
    /\ inflight = {}
    /\ errorsLogged = issued

\* C30: after any sequence of toggles whose PUT requests all fail, settled
\* in any order, every item of the page has the isPurchased it had before
\* the first toggle, which is the value of the store, as no PUT changed it.
C30_RollbackRestores ==
    AllTogglesFailed => pageItems = serverItems

====
